---- MODULE Spec2Model ----
(***************************************************************************)
(* A model of the report parsing and normalisation pipeline of             *)
(* A11y_insights: the Text Extractor (parser.py, ai_client.py), the        *)
(* Markdown Section Splitter (ai_client.py), the section parsers and the   *)
(* Report Assembler (report_generator.py).                                 *)
(*                                                                         *)
(* A Python string is a sequence of tokens.  A token is one character,     *)
(* written as a one-character string, or one of the fixed literals the     *)
(* code searches for (the two sentinels, the header keywords), which the   *)
(* model keeps atomic.                                                     *)
(***************************************************************************)
EXTENDS Integers, Sequences, FiniteSets, TLC

VARIABLES
    pc,          \* which operation has run: "idle" before any
    ai_output,   \* the argument of the Text Extractor
    extracted,   \* what parse_to_markdown_and_json returned
    v5,          \* what generate_a11y_report_v5 made of the same text
    md,          \* the argument of the Section Splitter
    sections,    \* what _extract_markdown_sections returned
    ai_result,   \* the ai_result argument of the Report Assembler
    report,      \* what build_deep_report returned
    second_pass, \* the report assembled again from report.raw_markdown
    section_body, \* the section body handed to a section parser
    parsed,      \* which section parser ran and what it returned
    reports_collection, \* the documents of the report store
    utcnow,      \* the reading of the clock, datetime.utcnow()
    db_write,    \* the last write command a handler sent to the store
    response,    \* what the last handler returned
    llm,         \* the LLM service as a call finds it: client, failure, text
    collection,  \* the documents inserted into db.collection
    calls        \* the save_report calls in progress, with their locals

extractVars == <<ai_output, extracted, v5>>
splitVars == <<md, sections>>
assembleVars == <<ai_result, report, second_pass>>
parseVars == <<section_body, parsed>>
storeVars == <<reports_collection, utcnow, db_write, response>>
serviceVars == <<llm, collection, calls>>
vars == <<pc, ai_output, extracted, v5, md, sections, ai_result, report, second_pass,
          section_body, parsed, reports_collection, utcnow, db_write, response,
          llm, collection, calls>>

----------------------------------------------------------------------------
(* Python str primitives                                                   *)

NL == "\n"
CR == "\r"

\* str.strip() / regex \s: the whitespace characters
Whitespace == {" ", NL, CR}

IsWs(c) == c \in Whitespace

SetMin(S) == CHOOSE x \in S : \A y \in S : x <= y
SetMax(S) == CHOOSE x \in S : \A y \in S : x >= y

\* str.lstrip()
LStrip(s) ==
    LET keep == {i \in 1..Len(s) : ~IsWs(s[i])}
    IN  IF keep = {} THEN <<>> ELSE SubSeq(s, SetMin(keep), Len(s))

\* str.rstrip()
RStrip(s) ==
    LET keep == {i \in 1..Len(s) : ~IsWs(s[i])}
    IN  IF keep = {} THEN <<>> ELSE SubSeq(s, 1, SetMax(keep))

\* str.strip()
Strip(s) == RStrip(LStrip(s))

\* `tok in s` for an atomic literal tok
Contains(s, tok) == \E i \in 1..Len(s) : s[i] = tok

\* index of the first occurrence of tok in s at or after i, 0 when there is none
FindFrom(s, tok, i) ==
    LET hits == {j \in i..Len(s) : s[j] = tok}
    IN  IF hits = {} THEN 0 ELSE SetMin(hits)

\* s.split(tok): the list of the pieces of s between the occurrences of tok
RECURSIVE SplitOn(_, _)
SplitOn(s, tok) ==
    LET j == FindFrom(s, tok, 1)
    IN  IF j = 0 THEN <<s>>
        ELSE <<SubSeq(s, 1, j - 1)>> \o SplitOn(SubSeq(s, j + 1, Len(s)), tok)

----------------------------------------------------------------------------
(* json.loads on the token grammar                                         *)
(*   value  ::= "1" | "0" | "[" [value ("," value)*] "]"                   *)
(*            | "{" ["k" value ("," "k" value)*] "}"                       *)
(* with whitespace allowed around every token.  "k" stands for a quoted    *)
(* key with its colon.  A parsed value is written canonically: its tokens  *)
(* without whitespace, an object keeping the last value of its key.        *)

JsonScalars == {"1", "0"}

JsonFail == [ok |-> FALSE, pos |-> 0, val |-> <<>>]

\* the first index at or after i that holds no whitespace (Len(s)+1 at the end)
SkipWs(s, i) ==
    LET rest == {j \in i..Len(s) : ~IsWs(s[j])}
    IN  IF rest = {} THEN Len(s) + 1 ELSE SetMin(rest)

RECURSIVE ParseValue(_, _), ParseElems(_, _, _), ParseMembers(_, _)

ParseValue(s, i) ==
    LET j == SkipWs(s, i)
    IN  IF j > Len(s) THEN JsonFail
        ELSE IF s[j] \in JsonScalars
             THEN [ok |-> TRUE, pos |-> j + 1, val |-> <<s[j]>>]
        ELSE IF s[j] = "["
             THEN LET n == SkipWs(s, j + 1)
                  IN  IF n <= Len(s) /\ s[n] = "]"
                      THEN [ok |-> TRUE, pos |-> n + 1, val |-> <<"[", "]">>]
                      ELSE ParseElems(s, j + 1, <<"[">>)
        ELSE IF s[j] = "{"
             THEN LET n == SkipWs(s, j + 1)
                  IN  IF n <= Len(s) /\ s[n] = "}"
                      THEN [ok |-> TRUE, pos |-> n + 1, val |-> <<"{", "}">>]
                      ELSE ParseMembers(s, j + 1)
        ELSE JsonFail

ParseElems(s, i, acc) ==
    LET v == ParseValue(s, i)
        j == SkipWs(s, v.pos)
    IN  IF ~v.ok \/ j > Len(s) THEN JsonFail
        ELSE IF s[j] = "," THEN ParseElems(s, j + 1, acc \o v.val \o <<",">>)
        ELSE IF s[j] = "]"
             THEN [ok |-> TRUE, pos |-> j + 1, val |-> acc \o v.val \o <<"]">>]
        ELSE JsonFail

ParseMembers(s, i) ==
    LET k == SkipWs(s, i)
    IN  IF k > Len(s) \/ s[k] # "k" THEN JsonFail
        ELSE LET v == ParseValue(s, k + 1)
                 j == SkipWs(s, v.pos)
             IN  IF ~v.ok \/ j > Len(s) THEN JsonFail
                 ELSE IF s[j] = "," THEN ParseMembers(s, j + 1)
                 ELSE IF s[j] = "}"
                      THEN [ok |-> TRUE, pos |-> j + 1,
                            val |-> <<"{", "k">> \o v.val \o <<"}">>]
                 ELSE JsonFail

\* json.loads(s): [ok, val]; ~ok is json.JSONDecodeError
JsonLoads(s) ==
    LET v == ParseValue(s, 1)
    IN  IF v.ok /\ SkipWs(s, v.pos) > Len(s)
        THEN [ok |-> TRUE, val |-> v.val]
        ELSE [ok |-> FALSE, val |-> <<>>]

EMPTY_DICT == <<"{", "}">>

\* Python truth of a parsed value: {} [] and 0 are false
JsonTruthy(v) == v \notin {EMPTY_DICT, <<"[", "]">>, <<"0">>}

\* re.sub(r",\s*<close>", "<close>", s)
RECURSIVE SubTrailingComma(_, _)
SubTrailingComma(s, close) ==
    IF s = <<>> THEN <<>>
    ELSE LET j == SkipWs(s, 2)
         IN  IF Head(s) = "," /\ j <= Len(s) /\ s[j] = close
             THEN <<close>> \o SubTrailingComma(SubSeq(s, j + 1, Len(s)), close)
             ELSE <<Head(s)>> \o SubTrailingComma(Tail(s), close)

----------------------------------------------------------------------------
(* Text Extractor: parser.parse_to_markdown_and_json                       *)

JSON_START == "---JSON-START---"
JSON_END == "---JSON-END---"

\* "# Accessibility Report\n*(No content)*"
NO_CONTENT_MARKDOWN == <<"# Accessibility Report\n*(No content)*">>

\* {"developer_checklist": [], "acceptance_criteria": [], "wcag_references": []}
DEFAULT_JSON == <<"{", "developer_checklist", "[", "]", ",",
                  "acceptance_criteria", "[", "]", ",",
                  "wcag_references", "[", "]", "}">>

\* An argument of the extractor: a str, None, or another non-str object
StrArg(s) == [kind |-> "str", text |-> s]
NoneArg == [kind |-> "None", text |-> <<>>]
IntArg == [kind |-> "int", text |-> <<>>]

\* `not ai_output or not isinstance(ai_output, str)`
InvalidOutput(arg) == arg.kind # "str" \/ arg.text = <<>>

\* BraceMatch with a lazy quantifier: from the first "{" to the first "}" after it
BraceMatchLazy(s) ==
    LET f == FindFrom(s, "{", 1)
        l == IF f = 0 THEN 0 ELSE FindFrom(s, "}", f + 1)
    IN  IF f # 0 /\ l > f THEN [found |-> TRUE, from |-> f, to |-> l]
        ELSE [found |-> FALSE, from |-> 0, to |-> 0]

\* re.search(r"\{[\s\S]*\}", s): greedy, from the first "{" to the last "}"
BraceMatch(s) ==
    LET f == FindFrom(s, "{", 1)
        closes == {j \in 1..Len(s) : s[j] = "}"}
        l == IF closes = {} THEN 0 ELSE SetMax(closes)
    IN  IF f # 0 /\ l > f THEN [found |-> TRUE, from |-> f, to |-> l]
        ELSE [found |-> FALSE, from |-> 0, to |-> 0]

\* SentinelBranch without the cut at the end sentinel
SentinelBranchNoEndCut(s) ==
    LET parts == SplitOn(s, JSON_START)
        json_raw == Strip(parts[2])
        first == JsonLoads(json_raw)
        cleaned == SubTrailingComma(SubTrailingComma(json_raw, "}"), "]")
        second == JsonLoads(cleaned)
    IN  [markdown |-> Strip(parts[1]),
         json |-> IF first.ok THEN first.val
                  ELSE IF second.ok THEN second.val
                  ELSE EMPTY_DICT,
         json_raw |-> json_raw]

\* SentinelBranch assigning markdown_report only once the region has parsed
SentinelBranchKeepsFullText(s) ==
    LET parts == SplitOn(s, JSON_START)
        json_raw == Strip(SplitOn(parts[2], JSON_END)[1])
        first == JsonLoads(json_raw)
        cleaned == SubTrailingComma(SubTrailingComma(json_raw, "}"), "]")
        second == JsonLoads(cleaned)
    IN  [markdown |-> IF first.ok \/ second.ok THEN Strip(parts[1]) ELSE Strip(s),
         json |-> IF first.ok THEN first.val
                  ELSE IF second.ok THEN second.val
                  ELSE EMPTY_DICT,
         json_raw |-> json_raw]

\* the sentinel branch: lines 59-77
SentinelBranch(s) ==
    LET parts == SplitOn(s, JSON_START)
        json_raw == Strip(SplitOn(parts[2], JSON_END)[1])
        first == JsonLoads(json_raw)
        cleaned == SubTrailingComma(SubTrailingComma(json_raw, "}"), "]")
        second == JsonLoads(cleaned)
    IN  [markdown |-> Strip(parts[1]),
         json |-> IF first.ok THEN first.val
                  ELSE IF second.ok THEN second.val
                  ELSE EMPTY_DICT,
         json_raw |-> json_raw]

\* InlineBranch with line 53 lacking its .strip()
InlineBranchNoStrip(s) ==
    LET m == BraceMatch(s)
        json_text == SubSeq(s, m.from, m.to)
        loaded == JsonLoads(json_text)
    IN  IF m.found /\ loaded.ok
        THEN [markdown |-> Strip(SubSeq(s, 1, m.from - 1) \o SubSeq(s, m.to + 1, Len(s))),
              json |-> loaded.val,
              json_raw |-> <<>>]
        ELSE [markdown |-> s, json |-> EMPTY_DICT, json_raw |-> <<>>]

\* the inline branch: lines 80-89
InlineBranch(s) ==
    LET m == BraceMatch(s)
        json_text == SubSeq(s, m.from, m.to)
        loaded == JsonLoads(json_text)
    IN  IF m.found /\ loaded.ok
        \* json_text runs from the first "{" to the last "}", so it occurs in
        \* s once and str.replace removes that one occurrence
        THEN [markdown |-> Strip(SubSeq(s, 1, m.from - 1) \o SubSeq(s, m.to + 1, Len(s))),
              json |-> loaded.val,
              json_raw |-> <<>>]
        ELSE [markdown |-> Strip(s), json |-> EMPTY_DICT, json_raw |-> <<>>]

\* lines 95-100: `x or default`
EnsureDefaults(r) ==
    [raised |-> FALSE,
     markdown |-> IF r.markdown = <<>> THEN NO_CONTENT_MARKDOWN ELSE r.markdown,
     json |-> IF JsonTruthy(r.json) THEN r.json ELSE DEFAULT_JSON,
     json_raw |-> r.json_raw]

\* the extractor without its guard of lines 49-51: .strip() of a non-str raises
parse_unguarded(arg) ==
    IF arg.kind # "str"
    THEN [raised |-> TRUE, markdown |-> <<>>, json |-> <<>>, json_raw |-> <<>>]
    ELSE IF Contains(arg.text, JSON_START)
         THEN EnsureDefaults(SentinelBranch(arg.text))
         ELSE EnsureDefaults(InlineBranch(arg.text))

parse_to_markdown_and_json(arg) ==
    IF InvalidOutput(arg)
    THEN [raised |-> FALSE, markdown |-> <<>>, json |-> EMPTY_DICT, json_raw |-> <<>>]
    ELSE IF Contains(arg.text, JSON_START)
         THEN EnsureDefaults(SentinelBranch(arg.text))
         ELSE EnsureDefaults(InlineBranch(arg.text))

----------------------------------------------------------------------------
(* Text Extractor, second copy: ai_client.generate_a11y_report_v5          *)

\* f"# Error generating V5 report: {e}\n\n(Mocked content follows...)"
V5_ERROR_MARKDOWN == <<"# Error generating V5 report">>

\* lines 842-848: the except branch
V5Fallback == [source |-> "mock", markdown |-> V5_ERROR_MARKDOWN, json |-> EMPTY_DICT]

\* lines 824-834: the sentinel split, no cleanup retry
V5SentinelBranch(text) ==
    LET parts == SplitOn(text, JSON_START)
        json_raw == Strip(SplitOn(parts[2], JSON_END)[1])
        loaded == JsonLoads(json_raw)
    IN  [markdown |-> Strip(parts[1]),
         json |-> IF loaded.ok THEN loaded.val ELSE EMPTY_DICT]

\* lines 818-838, from the response text on
generate_a11y_report_v5(arg) ==
    IF arg.kind # "str" \/ Strip(arg.text) = <<>>
    THEN V5Fallback        \* .strip() of a non-str, or "Empty response", raises
    ELSE LET text == Strip(arg.text)
             r == IF Contains(text, JSON_START)
                  THEN V5SentinelBranch(text)
                  ELSE [markdown |-> text, json |-> EMPTY_DICT]
         IN  [source |-> "openai",
              markdown |-> r.markdown,
              json |-> IF JsonTruthy(r.json) THEN r.json ELSE EMPTY_DICT]

----------------------------------------------------------------------------
(* Inputs of the extractor: every concatenation of at most MaxParts        *)
(* segments of model output, and two arguments that are no str             *)

MaxParts == 4

Segments ==
    { <<"a">>, <<" ">>, <<JSON_START>>, <<JSON_END>>,
      <<"{", "}">>, <<"[", "]">>, <<"{", "k", "1", "}">>, <<"[", "1", "]">>,
      <<"{", "k", "1", ",", "}">>, <<"{", "k">>, <<"}">> }

SegmentChoices == Segments \cup {<<>>}

RECURSIVE Flatten(_)
Flatten(ps) == IF ps = <<>> THEN <<>> ELSE Head(ps) \o Flatten(Tail(ps))

NoResult == [raised |-> FALSE, markdown |-> <<>>, json |-> <<>>, json_raw |-> <<>>]

\* no call of the Report Assembler yet
NoAiResult == <<>>
NoReport == <<>>

\* no call of a section parser yet
NoParsed == <<>>

\* no write sent to the store and no response returned yet
NoWrite == <<>>
NoResponse == <<>>

\* no LLM call made, nothing inserted, no save_report call in progress
NoLlm == <<>>
NoCalls == <<>>

ServiceIdle ==
    /\ llm = NoLlm
    /\ collection = <<>>
    /\ calls = NoCalls

\* the store and the clock where no /v5 handler runs
StoreIdle ==
    /\ reports_collection = {}
    /\ utcnow = 0
    /\ db_write = NoWrite
    /\ response = NoResponse

InitExtract ==
    /\ pc = "idle"
    /\ \/ \E ps \in [1..MaxParts -> SegmentChoices] : ai_output = StrArg(Flatten(ps))
       \/ ai_output \in {NoneArg, IntArg}
    /\ extracted = NoResult
    /\ v5 = V5Fallback
    /\ md = NoneArg
    /\ sections = <<>>
    /\ ai_result = NoAiResult
    /\ report = NoReport
    /\ second_pass = NoReport
    /\ section_body = NoneArg
    /\ parsed = NoParsed
    /\ StoreIdle
    /\ ServiceIdle

Extract ==
    /\ pc = "idle"
    /\ pc' = "extracted"
    /\ extracted' = parse_to_markdown_and_json(ai_output)
    /\ UNCHANGED <<ai_output, v5, splitVars, assembleVars, parseVars, storeVars, serviceVars>>

ExtractV5 ==
    /\ pc = "idle"
    /\ pc' = "extracted_v5"
    /\ v5' = generate_a11y_report_v5(ai_output)
    /\ UNCHANGED <<ai_output, extracted, splitVars, assembleVars, parseVars, storeVars, serviceVars>>

NextExtract == Extract \/ ExtractV5

SpecExtract == InitExtract /\ [][NextExtract]_vars

----------------------------------------------------------------------------
(* Markdown Section Splitter: ai_client._extract_markdown_sections         *)

\* md.replace("\r\n", "\n")
RECURSIVE ReplaceCRLF(_)
ReplaceCRLF(s) ==
    IF s = <<>> THEN <<>>
    ELSE IF Len(s) >= 2 /\ s[1] = CR /\ s[2] = NL
         THEN <<NL>> \o ReplaceCRLF(SubSeq(s, 3, Len(s)))
         ELSE <<Head(s)>> \o ReplaceCRLF(Tail(s))

\* the 3 of #{3,}
HEADER_MIN_HASHES == 3

\* the lookahead written #+\s
HeaderAheadAnyRun(s, i) ==
    \E n \in 1..(Len(s) - i) :
        /\ \A k \in i..(i + n - 1) : s[k] = "#"
        /\ IsWs(s[i + n])

\* the lookahead written #{3}\s: a run of exactly three
HeaderAheadTopLevelOnly(s, i) ==
    /\ Len(s) - i >= HEADER_MIN_HASHES
    /\ \A k \in i..(i + HEADER_MIN_HASHES - 1) : s[k] = "#"
    /\ IsWs(s[i + HEADER_MIN_HASHES])

\* the lookahead: #{3,}\s matches at position i of s
HeaderAhead(s, i) ==
    \E n \in HEADER_MIN_HASHES..(Len(s) - i) :
        /\ \A k \in i..(i + n - 1) : s[k] = "#"
        /\ IsWs(s[i + n])

\* re.split(r"\n(?=#{3,}\s)", s)
RECURSIVE SplitAtHeaders(_)
SplitAtHeaders(s) ==
    LET cuts == {i \in 1..Len(s) : s[i] = NL /\ HeaderAhead(s, i + 1)}
    IN  IF cuts = {} THEN <<s>>
        ELSE LET i == SetMin(cuts)
             IN  <<SubSeq(s, 1, i - 1)>> \o SplitAtHeaders(SubSeq(s, i + 1, Len(s)))

\* sections.setdefault(header, body): a key already there keeps its value
DictSetFirstWins(d, key, value) ==
    IF \E i \in 1..Len(d) : d[i].header = key
    THEN d
    ELSE Append(d, [header |-> key, body |-> value])

\* sections[header] = body on a dict in insertion order, kept as a sequence
\* of entries: a key already there keeps its place and takes the new value
DictSet(d, key, value) ==
    IF \E i \in 1..Len(d) : d[i].header = key
    THEN [i \in 1..Len(d) |->
             IF d[i].header = key THEN [header |-> key, body |-> value] ELSE d[i]]
    ELSE Append(d, [header |-> key, body |-> value])

\* PartEntry splitting at every newline and keeping lines[1] alone as the body
PartEntryOneLineBody(part) ==
    LET p == Strip(part)
        ls == SplitOn(p, NL)
    IN  IF Len(ls) = 1
        THEN [header |-> Strip(p), body |-> <<>>]
        ELSE [header |-> Strip(ls[1]), body |-> Strip(ls[2])]

\* lines 99-101: the entry of one part
PartEntry(part) ==
    LET p == Strip(part)
        nl == FindFrom(p, NL, 1)
    IN  IF nl = 0
        THEN [header |-> Strip(p), body |-> <<>>]
        ELSE [header |-> Strip(SubSeq(p, 1, nl - 1)),
              body |-> Strip(SubSeq(p, nl + 1, Len(p)))]

\* lines 97-102: the loop over the parts
RECURSIVE CollectSections(_, _)
CollectSections(parts, d) ==
    IF parts = <<>> THEN d
    ELSE LET e == PartEntry(Head(parts))
         IN  CollectSections(Tail(parts), DictSet(d, e.header, e.body))

\* _extract_markdown_sections with the whole-document .strip() of line 95 left out
extract_sections_untrimmed(arg) ==
    IF arg.kind # "str" \/ arg.text = <<>> THEN <<>>
    ELSE CollectSections(SplitAtHeaders(ReplaceCRLF(arg.text)), <<>>)

_extract_markdown_sections(arg) ==
    IF arg.kind # "str" \/ arg.text = <<>> THEN <<>>
    ELSE CollectSections(SplitAtHeaders(Strip(ReplaceCRLF(arg.text))), <<>>)

----------------------------------------------------------------------------
(* Inputs of the splitter: every document of at most MaxLines lines        *)

MaxLines == 4

Lines ==
    { <<>>,
      <<"x">>,
      <<"#", "#", "#", " ", "a">>,
      <<"#", "#", "#", "#", " ", "a">>,
      <<"#", "#", "#", " ", "a", CR>>,
      <<"#", "#", "#">>,
      <<"#", "#", "#", "a">>,
      <<"#", "#", " ", "a">>,
      <<" ", "#", "#", "#", " ", "a">>,
      <<"x", " ", "#", "#", "#", " ", "a">> }

\* "\n".join(ls)
RECURSIVE JoinLines(_)
JoinLines(ls) ==
    IF ls = <<>> THEN <<>>
    ELSE IF Len(ls) = 1 THEN ls[1]
    ELSE ls[1] \o <<NL>> \o JoinLines(Tail(ls))

InitSplit ==
    /\ pc = "idle"
    /\ \/ \E n \in 0..MaxLines : \E ls \in [1..n -> Lines] : md = StrArg(JoinLines(ls))
       \/ md = NoneArg
    /\ sections = <<>>
    /\ ai_output = NoneArg
    /\ extracted = NoResult
    /\ v5 = V5Fallback
    /\ ai_result = NoAiResult
    /\ report = NoReport
    /\ second_pass = NoReport
    /\ section_body = NoneArg
    /\ parsed = NoParsed
    /\ StoreIdle
    /\ ServiceIdle

Split ==
    /\ pc = "idle"
    /\ pc' = "split"
    /\ sections' = _extract_markdown_sections(md)
    /\ UNCHANGED <<md, extractVars, assembleVars, parseVars, storeVars, serviceVars>>

NextSplit == Split

SpecSplit == InitSplit /\ [][NextSplit]_vars

----------------------------------------------------------------------------
(* Python str and re primitives of the section parsers.  Words the code    *)
(* looks for ("Checklist", "Intent", "Web", ...) and the code fence of     *)
(* three backquotes are atomic tokens.                                     *)

\* None where the code keeps an Optional[str]
None == <<"None">>

\* s[i:].startswith(pat)
MatchAt(s, pat, i) ==
    /\ i >= 1
    /\ i + Len(pat) - 1 <= Len(s)
    /\ SubSeq(s, i, i + Len(pat) - 1) = pat

\* s.find(pat, i): index of the first occurrence at or after i, 0 when none
FindSeq(s, pat, i) ==
    LET hits == {j \in i..(Len(s) - Len(pat) + 1) : MatchAt(s, pat, j)}
    IN  IF hits = {} THEN 0 ELSE SetMin(hits)

\* pat in s
ContainsSeq(s, pat) == FindSeq(s, pat, 1) # 0

\* s.startswith(pat)
StartsWith(s, pat) == MatchAt(s, pat, 1)

\* s.lstrip(chars), s.strip(chars)
LStripChars(s, chars) ==
    LET keep == {i \in 1..Len(s) : s[i] \notin chars}
    IN  IF keep = {} THEN <<>> ELSE SubSeq(s, SetMin(keep), Len(s))

StripChars(s, chars) ==
    LET keep == {i \in 1..Len(s) : s[i] \notin chars}
    IN  IF keep = {} THEN <<>> ELSE SubSeq(s, SetMin(keep), SetMax(keep))

\* s.splitlines(): lines end at "\n", "\r\n" or "\r"; no last empty line
RECURSIVE SplitLines(_)
SplitLines(s) ==
    IF s = <<>> THEN <<>>
    ELSE LET brk == {i \in 1..Len(s) : s[i] \in {NL, CR}}
         IN  IF brk = {} THEN <<s>>
             ELSE LET i == SetMin(brk)
                      n == IF s[i] = CR /\ i < Len(s) /\ s[i + 1] = NL
                           THEN i + 2 ELSE i + 1
                  IN  <<SubSeq(s, 1, i - 1)>> \o SplitLines(SubSeq(s, n, Len(s)))

\* [l.strip() for l in ls]
StripAll(ls) == [i \in 1..Len(ls) |-> Strip(ls[i])]

\* s.lower(), on the words of the table headers
LowerToken(t) ==
    CASE t = "Issue" -> "issue"
      [] t = "Type" -> "type"
      [] t = "User" -> "user"
      [] t = "Impact" -> "impact"
      [] t = "Severity" -> "severity"
      [] t = "Recommended" -> "recommended"
      [] t = "Priority" -> "priority"
      [] t = "Attribute" -> "attribute"
      [] t = "Web" -> "web"
      [] t = "iOS" -> "ios"
      [] t = "Android" -> "android"
      [] t = "A" -> "a"
      [] t = "B" -> "b"
      [] t = "X" -> "x"
      [] OTHER -> t
Lower(s) == [i \in 1..Len(s) |-> LowerToken(s[i])]

\* a or b, on str values
OrStr(a, b) == IF a # <<>> THEN a ELSE b

Digits == {"0", "1", "2", "3", "4", "5", "6", "7", "8", "9"}

\* [a-zA-Z]: the letters and the words made of letters
Letters ==
    {"a", "b", "x", "y", "A", "B", "X", "html", "swift", "Web", "iOS", "Android",
     "Intent", "Expected", "Behavior", "Checklist", "Severity", "Issue", "Type"}

\* the index after the line that holds position i (of its "\n", or Len + 1)
LineEnd(s, i) ==
    LET nl == FindFrom(s, NL, i)
    IN  IF nl = 0 THEN Len(s) + 1 ELSE nl

\* \s*(.+) matched from position a: \s* takes all the whitespace it can and
\* gives back until a character other than "\n" follows; the index where
\* the group starts, 0 when there is no match.  The group runs to LineEnd.
RestStart(s, a) ==
    LET nonws == {j \in a..Len(s) : ~IsWs(s[j])}
        runEnd == IF nonws = {} THEN Len(s) + 1 ELSE SetMin(nonws)
        cands == {q \in a..runEnd : q <= Len(s) /\ s[q] # NL}
    IN  IF cands = {} THEN 0 ELSE SetMax(cands)

RestGroup(s, q) == SubSeq(s, q, LineEnd(s, q) - 1)

----------------------------------------------------------------------------
(* The section parsers: report_generator.py                                *)

NoMatch == [ok |-> FALSE, from |-> 0, to |-> 0, done |-> FALSE]

\* one match of ^(?:- \[([ xX])\]\s*|(\d+)\.\s*)(.+)$ at the line start p
ChecklistMatch(s, p) ==
    LET box == /\ MatchAt(s, <<"-", " ", "[">>, p)
               /\ p + 4 <= Len(s)
               /\ s[p + 3] \in {" ", "x", "X"}
               /\ s[p + 4] = "]"
        nondigit == {j \in p..Len(s) : s[j] \notin Digits}
        d == IF nondigit = {} THEN Len(s) + 1 ELSE SetMin(nondigit)
        num == d > p /\ d <= Len(s) /\ s[d] = "."
        a == IF box THEN p + 5 ELSE d + 1
        q == RestStart(s, a)
    IN  IF (box \/ num) /\ q # 0
        THEN [ok |-> TRUE, from |-> q, to |-> LineEnd(s, q) - 1,
              done |-> box /\ s[p + 3] \in {"x", "X"}]
        ELSE NoMatch

\* re.finditer from pos on: the matches do not overlap
RECURSIVE ChecklistFrom(_, _)
ChecklistFrom(s, pos) ==
    LET starts == {p \in pos..Len(s) :
                      (p = 1 \/ s[p - 1] = NL) /\ ChecklistMatch(s, p).ok}
    IN  IF starts = {} THEN <<>>
        ELSE LET m == ChecklistMatch(s, SetMin(starts))
             IN  <<[text |-> Strip(SubSeq(s, m.from, m.to)), done |-> m.done]>>
                    \o ChecklistFrom(s, m.to + 1)

_parse_checklist_from_section(text) ==
    IF text = <<>> THEN <<>> ELSE ChecklistFrom(text, 1)

\* the bullet character U+2022
BULLET == "(bullet)"

\* line.strip().startswith(("-", BULLET, "*", "1."))
HasListMarker(line) ==
    LET t == Strip(line)
    IN  \/ StartsWith(t, <<"-">>) \/ StartsWith(t, <<BULLET>>)
        \/ StartsWith(t, <<"*">>) \/ StartsWith(t, <<"1", ".">>)

_parse_simple_list(text) ==
    IF text = <<>> THEN <<>>
    ELSE LET lines == SelectSeq(SplitLines(text), HasListMarker)
         IN  [i \in 1..Len(lines) |-> Strip(StripChars(lines[i], {"-", BULLET, " "}))]

\* [l.strip() for l in text.splitlines() if l.strip()]
NonBlankLines(text) ==
    SelectSeq(StripAll(SplitLines(text)), LAMBDA l : l # <<>>)

\* [c.strip() for c in line.split("|") if c.strip()]
Cells(line) ==
    SelectSeq(StripAll(SplitOn(line, "|")), LAMBDA c : c # <<>>)

\* a line the table loops skip: no "|" in it, or "---"
SkippedRow(line) == ~Contains(line, "|") \/ ContainsSeq(line, <<"-", "-", "-">>)

PlatformRow(cols) ==
    [attribute |-> cols[1],
     web |-> IF Len(cols) > 1 THEN cols[2] ELSE None,
     ios |-> IF Len(cols) > 2 THEN cols[3] ELSE None,
     android |-> IF Len(cols) > 3 THEN cols[4] ELSE None]

\* the parser giving up on a table with a row shorter than its header
PlatformMatrixRejectingShortRows(text) ==
    LET lines == NonBlankLines(text)
    IN  IF lines = <<>> \/ ~Contains(lines[1], "|") THEN <<>>
        ELSE LET rows == SelectSeq(Tail(lines),
                             LAMBDA line : ~SkippedRow(line) /\ Cells(line) # <<>>)
             IN  IF \E i \in 1..Len(rows) : Len(Cells(rows[i])) < Len(Cells(lines[1]))
                 THEN <<>>
                 ELSE [i \in 1..Len(rows) |-> PlatformRow(Cells(rows[i]))]

_parse_platform_matrix(text) ==
    LET lines == NonBlankLines(text)
    IN  IF lines = <<>> \/ ~Contains(lines[1], "|") THEN <<>>
        ELSE LET rows == SelectSeq(Tail(lines),
                             LAMBDA line : ~SkippedRow(line) /\ Cells(line) # <<>>)
             IN  [i \in 1..Len(rows) |-> PlatformRow(Cells(rows[i]))]

\* mapping.get(name) of the mapping built at lines 72-74: the cell under
\* the last header column called name, "" when the row is too short or no
\* column has the name
Cell(header_cols, cols, name) ==
    LET idx == {i \in 1..Len(header_cols) : header_cols[i] = name}
    IN  IF idx = {} \/ SetMax(idx) > Len(cols) THEN <<>> ELSE cols[SetMax(idx)]

SeverityRow(header_cols, cols) ==
    [issue_type |-> OrStr(Cell(header_cols, cols, <<"issue", " ", "type">>),
                          Cell(header_cols, cols, <<"issue">>)),
     user_impact |-> Cell(header_cols, cols, <<"user", " ", "impact">>),
     severity |-> Cell(header_cols, cols, <<"severity">>),
     recommended_priority |->
         OrStr(Cell(header_cols, cols, <<"recommended", " ", "priority">>),
               Cell(header_cols, cols, <<"priority">>))]

_parse_severity_table(text) ==
    LET lines == NonBlankLines(text)
    IN  IF lines = <<>> \/ ~Contains(lines[1], "|") THEN <<>>
        ELSE LET cells == Cells(lines[1])
                 header_cols == [i \in 1..Len(cells) |-> Lower(cells[i])]
                 rows == SelectSeq(Tail(lines), LAMBDA line : ~SkippedRow(line))
             IN  [i \in 1..Len(rows) |-> SeverityRow(header_cols, Cells(rows[i]))]

\* \*\*Intent:\*\*\s*(.+): the group of the leftmost match, None without one
IntentOf(s) ==
    LET label == <<"*", "*", "Intent", ":", "*", "*">>
        hits == {p \in 1..Len(s) :
                    MatchAt(s, label, p) /\ RestStart(s, p + Len(label)) # 0}
    IN  IF hits = {} THEN None
        ELSE Strip(RestGroup(s, RestStart(s, SetMin(hits) + Len(label))))

\* \*\*Expected[^:]*:\*\*\s*(.+): [^:]* stops at the first ":" after the word
ExpectedRest(s, p) ==
    LET c == FindFrom(s, ":", p + 3)
    IN  IF MatchAt(s, <<"*", "*", "Expected">>, p) /\ c # 0
           /\ MatchAt(s, <<":", "*", "*">>, c)
        THEN RestStart(s, c + 3) ELSE 0

ExpectedOf(s) ==
    LET hits == {p \in 1..Len(s) : ExpectedRest(s, p) # 0}
    IN  IF hits = {} THEN None
        ELSE Strip(RestGroup(s, ExpectedRest(s, SetMin(hits))))

\* the code fence, three backquotes
FENCE == "(fence)"

NoFence == [ok |-> FALSE, from |-> 0, to |-> 0]

\* FENCE[a-zA-Z]*\n(.+?)FENCE matched at position i (re.DOTALL): the group is
\* not empty and ends before the first closing fence
FenceAt(s, i) ==
    IF ~MatchAt(s, <<FENCE>>, i) THEN NoFence
    ELSE LET other == {j \in (i + 1)..Len(s) : s[j] \notin Letters}
             a == IF other = {} THEN 0 ELSE SetMin(other)
             close == IF a = 0 THEN 0 ELSE FindFrom(s, FENCE, a + 2)
         IN  IF a # 0 /\ s[a] = NL /\ close # 0
             THEN [ok |-> TRUE, from |-> a + 1, to |-> close - 1]
             ELSE NoFence

\* Web:\s*FENCE[a-zA-Z]*\n(.+?)FENCE and the like: the fence after the leftmost
\* label that has one
LabeledFence(s, label, p) ==
    LET nonws == {j \in (p + 2)..Len(s) : ~IsWs(s[j])}
    IN  IF MatchAt(s, <<label, ":">>, p) /\ nonws # {}
        THEN FenceAt(s, SetMin(nonws)) ELSE NoFence

LabeledCode(s, label) ==
    LET hits == {p \in 1..Len(s) : LabeledFence(s, label, p).ok}
    IN  IF hits = {} THEN None
        ELSE LET f == LabeledFence(s, label, SetMin(hits))
             IN  Strip(SubSeq(s, f.from, f.to))

\* re.findall(r"FENCE[a-zA-Z]*\n(.+?)FENCE", text, re.DOTALL) from pos on
RECURSIVE CodeBlocksFrom(_, _)
CodeBlocksFrom(s, pos) ==
    LET hits == {i \in pos..Len(s) : FenceAt(s, i).ok}
    IN  IF hits = {} THEN <<>>
        ELSE LET f == FenceAt(s, SetMin(hits))
             IN  <<SubSeq(s, f.from, f.to)>> \o CodeBlocksFrom(s, f.to + 2)

DEVELOPER_REPORT_TITLE == <<"Developer", " ", "Accessibility", " ", "Report">>

\* the parser taking the first two fenced blocks as the examples whether or
\* not a labeled block was found
DeveloperReportAlwaysExamples(text) ==
    LET web == LabeledCode(text, "Web")
        ios == LabeledCode(text, "iOS")
        android == LabeledCode(text, "Android")
        implementation_details ==
            (IF web = None THEN <<>> ELSE <<[key |-> "web", value |-> web]>>)
              \o (IF ios = None THEN <<>> ELSE <<[key |-> "ios", value |-> ios]>>)
              \o (IF android = None THEN <<>>
                  ELSE <<[key |-> "android", value |-> android]>>)
        code_blocks == CodeBlocksFrom(text, 1)
    IN  [title |-> DEVELOPER_REPORT_TITLE,
         intent |-> IntentOf(text),
         expected_behavior |-> ExpectedOf(text),
         implementation_details |->
             IF implementation_details = <<>> THEN None ELSE implementation_details,
         good_example |-> IF code_blocks # <<>> THEN Strip(code_blocks[1]) ELSE None,
         bad_example |-> IF Len(code_blocks) > 1
                         THEN Strip(code_blocks[2]) ELSE None,
         wcag_references |-> None,
         testing_steps |-> _parse_simple_list(text)]

_parse_developer_report_section(text) ==
    LET web == LabeledCode(text, "Web")
        ios == LabeledCode(text, "iOS")
        android == LabeledCode(text, "Android")
        implementation_details ==
            (IF web = None THEN <<>> ELSE <<[key |-> "web", value |-> web]>>)
              \o (IF ios = None THEN <<>> ELSE <<[key |-> "ios", value |-> ios]>>)
              \o (IF android = None THEN <<>>
                  ELSE <<[key |-> "android", value |-> android]>>)
        code_blocks == CodeBlocksFrom(text, 1)
        fallback == code_blocks # <<>> /\ implementation_details = <<>>
    IN  [title |-> DEVELOPER_REPORT_TITLE,
         intent |-> IntentOf(text),
         expected_behavior |-> ExpectedOf(text),
         implementation_details |->
             IF implementation_details = <<>> THEN None ELSE implementation_details,
         good_example |-> IF fallback THEN Strip(code_blocks[1]) ELSE None,
         bad_example |-> IF fallback /\ Len(code_blocks) > 1
                         THEN Strip(code_blocks[2]) ELSE None,
         wcag_references |-> None,
         testing_steps |-> _parse_simple_list(text)]

----------------------------------------------------------------------------
(* A call of a section parser with a text that is a str or None.  The      *)
(* checklist and the simple list parser test `not text` first; the other   *)
(* three call text.splitlines() or re.search(..., text), which raise on    *)
(* None (AttributeError, TypeError).                                       *)

ParserRaised(name) == [parser |-> name, raised |-> TRUE, value |-> <<>>]
Returns(name, value) == [parser |-> name, raised |-> FALSE, value |-> value]

ChecklistOf(arg) ==
    IF arg.kind = "None" THEN Returns("checklist", <<>>)
    ELSE Returns("checklist", _parse_checklist_from_section(arg.text))

SimpleListOf(arg) ==
    IF arg.kind = "None" THEN Returns("simple_list", <<>>)
    ELSE Returns("simple_list", _parse_simple_list(arg.text))

PlatformMatrixOf(arg) ==
    IF arg.kind = "None" THEN ParserRaised("platform_matrix")
    ELSE Returns("platform_matrix", _parse_platform_matrix(arg.text))

SeverityTableOf(arg) ==
    IF arg.kind = "None" THEN ParserRaised("severity_table")
    ELSE Returns("severity_table", _parse_severity_table(arg.text))

DeveloperReportSectionOf(arg) ==
    IF arg.kind = "None" THEN ParserRaised("developer_report")
    ELSE Returns("developer_report", _parse_developer_report_section(arg.text))

----------------------------------------------------------------------------
(* Inputs of the section parsers: None, and every body of at most          *)
(* MaxBodyLines lines                                                      *)

MaxBodyLines == 3

BodyLines ==
    { <<>>,
      <<"x">>,
      <<"-", " ", "[", "x", "]", " ", "D", "o", " ", "A">>,
      <<"-", " ", "[", " ", "]", " ", "D", "o", " ", "B">>,
      <<"-", " ", "[", "X", "]">>,
      <<"1", ".", " ", "a", " ">>,
      <<"|", " ", "Issue", " ", "Type", " ", "|", " ", "Severity", " ", "|">>,
      <<"|", " ", "Severity", " ", "|", " ", "Issue", " ", "|">>,
      <<"|", "-", "-", "-", "|", "-", "-", "-", "|">>,
      <<"|", " ", "a", " ", "|", " ", "High", " ", "|">>,
      <<"|", " ", "|", " ", "High", " ", "|">>,
      <<"|", " ", "a", " ", "|">>,
      <<"|", " ", "Issue", " ", "Type", " ", "|", " ", "User", " ", "Impact", " ", "|",
        " ", "Severity", " ", "|", " ", "Priority", " ", "|">>,
      <<"|", " ", "Missing label", " ", "|", " ", "Screen reader users unaware", " ", "|",
        " ", "High", " ", "|", " ", "P1", " ", "|">>,
      <<"*", "*", "Intent", ":", "*", "*", " ", "a">>,
      <<"*", " ", "b">>,
      <<"|", " ", "a", " ", "|", " ", "|", " ", "High", " ", "|">>,
      <<"Web", ":", " ", FENCE>>,
      <<FENCE>> }

InitParse ==
    /\ pc = "idle"
    /\ \/ \E n \in 0..MaxBodyLines : \E ls \in [1..n -> BodyLines] :
             section_body = StrArg(JoinLines(ls))
       \/ section_body = NoneArg
    /\ parsed = NoParsed
    /\ StoreIdle
    /\ ServiceIdle
    /\ ai_output = NoneArg
    /\ extracted = NoResult
    /\ v5 = V5Fallback
    /\ md = NoneArg
    /\ sections = <<>>
    /\ ai_result = NoAiResult
    /\ report = NoReport
    /\ second_pass = NoReport

ParseChecklist ==
    /\ pc = "idle"
    /\ pc' = "parsed"
    /\ parsed' = ChecklistOf(section_body)
    /\ UNCHANGED <<section_body, extractVars, splitVars, assembleVars, storeVars, serviceVars>>

ParseSimpleList ==
    /\ pc = "idle"
    /\ pc' = "parsed"
    /\ parsed' = SimpleListOf(section_body)
    /\ UNCHANGED <<section_body, extractVars, splitVars, assembleVars, storeVars, serviceVars>>

ParsePlatformMatrix ==
    /\ pc = "idle"
    /\ pc' = "parsed"
    /\ parsed' = PlatformMatrixOf(section_body)
    /\ UNCHANGED <<section_body, extractVars, splitVars, assembleVars, storeVars, serviceVars>>

ParseSeverityTable ==
    /\ pc = "idle"
    /\ pc' = "parsed"
    /\ parsed' = SeverityTableOf(section_body)
    /\ UNCHANGED <<section_body, extractVars, splitVars, assembleVars, storeVars, serviceVars>>

ParseDeveloperReportSection ==
    /\ pc = "idle"
    /\ pc' = "parsed"
    /\ parsed' = DeveloperReportSectionOf(section_body)
    /\ UNCHANGED <<section_body, extractVars, splitVars, assembleVars, storeVars, serviceVars>>

NextParse ==
    \/ ParseChecklist
    \/ ParseSimpleList
    \/ ParsePlatformMatrix
    \/ ParseSeverityTable
    \/ ParseDeveloperReportSection

SpecParse == InitParse /\ [][NextParse]_vars

----------------------------------------------------------------------------
(* Python values of the parsed JSON, and the pydantic models of schemas.py *)
(* (pydantic 1.x, which schemas.py is written for: a field of type         *)
(* Optional[str] without a default is None when it is not given, a str     *)
(* field takes a str or a number, keys that are no field are ignored)      *)

PyStr(s) == [t |-> "str", v |-> s]
PyInt(digits) == [t |-> "int", v |-> digits]
PyNone == [t |-> "None", v |-> <<>>]
PyList(items) == [t |-> "list", v |-> items]
PyDict(pairs) == [t |-> "dict", v |-> pairs]
Pair(key, value) == [key |-> key, value |-> value]

\* bool(x)
Truthy(x) ==
    CASE x.t = "None" -> FALSE
      [] x.t = "int" -> x.v # <<"0">>
      [] OTHER -> x.v # <<>>

\* d.get(key)
DictGet(d, key) ==
    LET idx == {i \in 1..Len(d.v) : d.v[i].key = key}
    IN  IF idx = {} THEN PyNone ELSE d.v[SetMax(idx)].value

\* d.get(a) or d.get(b)
GetEither(d, a, b) ==
    IF Truthy(DictGet(d, a)) THEN DictGet(d, a) ELSE DictGet(d, b)

\* the elements the JSON pass loops over: raw if raw and isinstance(raw, list)
ListUnder(d, a, b) ==
    LET raw == GetEither(d, a, b)
    IN  IF Truthy(raw) /\ raw.t = "list" THEN raw.v ELSE <<>>

\* repr(x) and str(x)
RECURSIVE PyRepr(_)
RECURSIVE ReprItems(_)
RECURSIVE ReprPairs(_)
ReprItems(xs) ==
    IF xs = <<>> THEN <<>>
    ELSE IF Len(xs) = 1 THEN PyRepr(xs[1])
    ELSE PyRepr(xs[1]) \o <<",", " ">> \o ReprItems(Tail(xs))
ReprPairs(ps) ==
    IF ps = <<>> THEN <<>>
    ELSE <<"'", ps[1].key, "'", ":", " ">> \o PyRepr(ps[1].value)
           \o (IF Len(ps) = 1 THEN <<>> ELSE <<",", " ">> \o ReprPairs(Tail(ps)))
PyRepr(x) ==
    CASE x.t = "str" -> <<"'">> \o x.v \o <<"'">>
      [] x.t = "int" -> x.v
      [] x.t = "None" -> <<"N", "o", "n", "e">>
      [] x.t = "list" -> <<"[">> \o ReprItems(x.v) \o <<"]">>
      [] x.t = "dict" -> <<"{">> \o ReprPairs(x.v) \o <<"}">>
str(x) == IF x.t = "str" THEN x.v ELSE PyRepr(x)

\* validation of a str field and of an Optional[str] field
StrFieldOk(x) == x.t \in {"str", "int"}
OptFieldOk(x) == x.t \in {"str", "int", "None"}
OptField(x) == IF x.t = "None" THEN None ELSE x.v

\* AccessibilityChecklistItem(text=str(i))
ChecklistItemOf(i) == [text |-> str(i), done |-> FALSE]

\* PlatformMatrixItem(**p) if isinstance(p, dict) else PlatformMatrixItem(attribute=str(p))
PlatformItemOk(p) ==
    p.t = "dict" =>
        /\ StrFieldOk(DictGet(p, "attribute"))
        /\ \A f \in {"web", "ios", "android"} : OptFieldOk(DictGet(p, f))
PlatformItemOf(p) ==
    IF p.t = "dict"
    THEN [attribute |-> DictGet(p, "attribute").v,
          web |-> OptField(DictGet(p, "web")),
          ios |-> OptField(DictGet(p, "ios")),
          android |-> OptField(DictGet(p, "android"))]
    ELSE [attribute |-> str(p), web |-> None, ios |-> None, android |-> None]

\* TestingToolSuggestion(tool=t if isinstance(t, str) else t.get("tool", ""))
ToolName(t) ==
    LET idx == {i \in 1..Len(t.v) : t.v[i].key = "tool"}
    IN  IF idx = {} THEN PyStr(<<>>) ELSE DictGet(t, "tool")
ToolItemOk(t) == t.t = "str" \/ (t.t = "dict" /\ StrFieldOk(ToolName(t)))
ToolItemOf(t) ==
    [tool |-> IF t.t = "str" THEN t.v ELSE ToolName(t).v,
     platform |-> None, use_case |-> None]

\* SeverityItem(**s) if isinstance(s, dict) else SeverityItem(issue_type=str(s))
SeverityItemOk(s) ==
    s.t = "dict" =>
        /\ StrFieldOk(DictGet(s, "issue_type"))
        /\ \A f \in {"user_impact", "severity", "recommended_priority"} :
              OptFieldOk(DictGet(s, f))
SeverityItemOf(s) ==
    IF s.t = "dict"
    THEN [issue_type |-> DictGet(s, "issue_type").v,
          user_impact |-> OptField(DictGet(s, "user_impact")),
          severity |-> OptField(DictGet(s, "severity")),
          recommended_priority |-> OptField(DictGet(s, "recommended_priority"))]
    ELSE [issue_type |-> str(s), user_impact |-> None, severity |-> None,
          recommended_priority |-> None]

\* AccessibilityAcceptanceCriterion(text=str(a))
CriterionOf(a) == [text |-> str(a)]

----------------------------------------------------------------------------
(* Report Assembler: report_generator.build_deep_report                    *)

\* lines 158-163: the six collections before the passes
EmptyFields ==
    [raised |-> FALSE, checklist |-> <<>>, report_sections |-> <<>>,
     platform_matrix |-> <<>>, testing_tools |-> <<>>, severity_table |-> <<>>,
     acceptance_criteria |-> <<>>]

\* lines 166-189: the JSON pass; a list element no model accepts raises
JsonPass(parsed_json) ==
    IF ~(Truthy(parsed_json) /\ parsed_json.t = "dict") THEN EmptyFields
    ELSE LET raw_check == ListUnder(parsed_json, "checklist", "developer_checklist")
             raw_platform == ListUnder(parsed_json, "platform_matrix", "platforms")
             raw_tools == ListUnder(parsed_json, "testing_tools", "tools")
             raw_sev == ListUnder(parsed_json, "severity_table", "severity")
             raw_accept == ListUnder(parsed_json, "acceptance_criteria", "acceptance")
         IN  IF /\ \A i \in 1..Len(raw_platform) : PlatformItemOk(raw_platform[i])
                /\ \A i \in 1..Len(raw_tools) : ToolItemOk(raw_tools[i])
                /\ \A i \in 1..Len(raw_sev) : SeverityItemOk(raw_sev[i])
             THEN [raised |-> FALSE,
                   checklist |-> [i \in 1..Len(raw_check) |-> ChecklistItemOf(raw_check[i])],
                   report_sections |-> <<>>,
                   platform_matrix |->
                       [i \in 1..Len(raw_platform) |-> PlatformItemOf(raw_platform[i])],
                   testing_tools |-> [i \in 1..Len(raw_tools) |-> ToolItemOf(raw_tools[i])],
                   severity_table |-> [i \in 1..Len(raw_sev) |-> SeverityItemOf(raw_sev[i])],
                   acceptance_criteria |->
                       [i \in 1..Len(raw_accept) |-> CriterionOf(raw_accept[i])]]
             ELSE [EmptyFields EXCEPT !.raised = TRUE]

\* lines 201-205
ToolsOfSection(body) ==
    LET tools == _parse_simple_list(body)
    IN  [i \in 1..Len(tools) |-> [tool |-> tools[i], platform |-> None, use_case |-> None]]

\* lines 209-210
HasCriterionMarker(l) ==
    LET t == Strip(l)
    IN  StartsWith(t, <<"-">>) \/ StartsWith(t, <<"1", ".">>) \/ StartsWith(t, <<"*">>)
CriteriaOfSection(body) ==
    LET lines == StripAll(SelectSeq(SplitLines(body), HasCriterionMarker))
    IN  [i \in 1..Len(lines) |->
            [text |-> Strip(LStripChars(lines[i], {"-", "*", ".", " "} \cup Digits))]]

KW_CHECKLIST == <<"Checklist">>
KW_DEVELOPER_REPORT == <<"Developer", " ", "Accessibility", " ", "Report">>
KW_REPORT == <<"Accessibility", " ", "Report">>
KW_PLATFORM_MATRIX == <<"Platform", " ", "Matrix">>
KW_TESTING_TOOLS == <<"Testing", " ", "Tools">>
KW_SEVERITY == <<"Severity">>
KW_ACCEPTANCE == <<"Acceptance">>

\* the Markdown pass appending to what the JSON pass left
ApplySectionMerging(f, hdr, body) ==
    IF ContainsSeq(hdr, KW_CHECKLIST)
    THEN [f EXCEPT !.checklist = @ \o _parse_checklist_from_section(body)]
    ELSE IF ContainsSeq(hdr, KW_DEVELOPER_REPORT) \/ ContainsSeq(hdr, KW_REPORT)
    THEN [f EXCEPT !.report_sections = Append(@, _parse_developer_report_section(body))]
    ELSE IF ContainsSeq(hdr, KW_PLATFORM_MATRIX)
    THEN [f EXCEPT !.platform_matrix = @ \o _parse_platform_matrix(body)]
    ELSE IF ContainsSeq(hdr, KW_TESTING_TOOLS)
    THEN [f EXCEPT !.testing_tools = @ \o ToolsOfSection(body)]
    ELSE IF ContainsSeq(hdr, KW_SEVERITY)
    THEN [f EXCEPT !.severity_table = @ \o _parse_severity_table(body)]
    ELSE IF ContainsSeq(hdr, KW_ACCEPTANCE)
    THEN [f EXCEPT !.acceptance_criteria = @ \o CriteriaOfSection(body)]
    ELSE f

\* the Markdown pass winning per document: a section that is parsed into a
\* field drops what the other fields held
ApplySectionWholeDocument(f, hdr, body) ==
    LET g == [EmptyFields EXCEPT !.report_sections = f.report_sections]
    IN  IF ContainsSeq(hdr, KW_CHECKLIST)
        THEN [g EXCEPT !.checklist = _parse_checklist_from_section(body)]
        ELSE IF ContainsSeq(hdr, KW_DEVELOPER_REPORT) \/ ContainsSeq(hdr, KW_REPORT)
        THEN [f EXCEPT !.report_sections = Append(@, _parse_developer_report_section(body))]
        ELSE IF ContainsSeq(hdr, KW_PLATFORM_MATRIX)
        THEN [g EXCEPT !.platform_matrix = _parse_platform_matrix(body)]
        ELSE IF ContainsSeq(hdr, KW_TESTING_TOOLS)
        THEN [g EXCEPT !.testing_tools = ToolsOfSection(body)]
        ELSE IF ContainsSeq(hdr, KW_SEVERITY)
        THEN [g EXCEPT !.severity_table = _parse_severity_table(body)]
        ELSE IF ContainsSeq(hdr, KW_ACCEPTANCE)
        THEN [g EXCEPT !.acceptance_criteria = CriteriaOfSection(body)]
        ELSE f

\* the Markdown pass leaving alone a field the JSON pass has filled
ApplySectionJsonWins(f, hdr, body) ==
    LET keep(field, value) == IF f[field] = <<>> THEN value ELSE f[field]
    IN  IF ContainsSeq(hdr, KW_CHECKLIST)
        THEN [f EXCEPT !.checklist = keep("checklist", _parse_checklist_from_section(body))]
        ELSE IF ContainsSeq(hdr, KW_DEVELOPER_REPORT) \/ ContainsSeq(hdr, KW_REPORT)
        THEN [f EXCEPT !.report_sections = Append(@, _parse_developer_report_section(body))]
        ELSE IF ContainsSeq(hdr, KW_PLATFORM_MATRIX)
        THEN [f EXCEPT !.platform_matrix = keep("platform_matrix", _parse_platform_matrix(body))]
        ELSE IF ContainsSeq(hdr, KW_TESTING_TOOLS)
        THEN [f EXCEPT !.testing_tools = keep("testing_tools", ToolsOfSection(body))]
        ELSE IF ContainsSeq(hdr, KW_SEVERITY)
        THEN [f EXCEPT !.severity_table = keep("severity_table", _parse_severity_table(body))]
        ELSE IF ContainsSeq(hdr, KW_ACCEPTANCE)
        THEN [f EXCEPT !.acceptance_criteria = keep("acceptance_criteria", CriteriaOfSection(body))]
        ELSE f

\* the Markdown pass keeping one developer report only: a later report
\* section replaces the entry of an earlier one
ApplySectionOneReport(f, hdr, body) ==
    IF ContainsSeq(hdr, KW_CHECKLIST)
    THEN [f EXCEPT !.checklist = _parse_checklist_from_section(body)]
    ELSE IF ContainsSeq(hdr, KW_DEVELOPER_REPORT) \/ ContainsSeq(hdr, KW_REPORT)
    THEN [f EXCEPT !.report_sections = <<_parse_developer_report_section(body)>>]
    ELSE IF ContainsSeq(hdr, KW_PLATFORM_MATRIX)
    THEN [f EXCEPT !.platform_matrix = _parse_platform_matrix(body)]
    ELSE IF ContainsSeq(hdr, KW_TESTING_TOOLS)
    THEN [f EXCEPT !.testing_tools = ToolsOfSection(body)]
    ELSE IF ContainsSeq(hdr, KW_SEVERITY)
    THEN [f EXCEPT !.severity_table = _parse_severity_table(body)]
    ELSE IF ContainsSeq(hdr, KW_ACCEPTANCE)
    THEN [f EXCEPT !.acceptance_criteria = CriteriaOfSection(body)]
    ELSE f

\* lines 194-210: one turn of the loop over the sections
ApplySection(f, hdr, body) ==
    IF ContainsSeq(hdr, KW_CHECKLIST)
    THEN [f EXCEPT !.checklist = _parse_checklist_from_section(body)]
    ELSE IF ContainsSeq(hdr, KW_DEVELOPER_REPORT) \/ ContainsSeq(hdr, KW_REPORT)
    THEN [f EXCEPT !.report_sections = Append(@, _parse_developer_report_section(body))]
    ELSE IF ContainsSeq(hdr, KW_PLATFORM_MATRIX)
    THEN [f EXCEPT !.platform_matrix = _parse_platform_matrix(body)]
    ELSE IF ContainsSeq(hdr, KW_TESTING_TOOLS)
    THEN [f EXCEPT !.testing_tools = ToolsOfSection(body)]
    ELSE IF ContainsSeq(hdr, KW_SEVERITY)
    THEN [f EXCEPT !.severity_table = _parse_severity_table(body)]
    ELSE IF ContainsSeq(hdr, KW_ACCEPTANCE)
    THEN [f EXCEPT !.acceptance_criteria = CriteriaOfSection(body)]
    ELSE f

\* lines 192-210: the Markdown pass
RECURSIVE MarkdownPass(_, _)
MarkdownPass(f, secs) ==
    IF secs = <<>> THEN f
    ELSE MarkdownPass(ApplySection(f, secs[1].header, secs[1].body), Tail(secs))

SUMMARY_LEN == 200

\* s[:n]
Prefix(s, n) == SubSeq(s, 1, IF Len(s) < n THEN Len(s) ELSE n)

\* bool(md) of an Optional[str]
MdTruthy(markdown) == markdown.kind = "str" /\ markdown.text # <<>>

\* the report of a call that raised: there is none
Raised == [EmptyFields EXCEPT !.raised = TRUE]

build_deep_report(story_id, title, description, detected_components, result, meta, now) ==
    LET markdown == result.markdown
        json_fields == JsonPass(result.parsed_json)
        f == IF MdTruthy(markdown) THEN MarkdownPass(json_fields, result.sections)
             ELSE json_fields
    IN  IF json_fields.raised THEN Raised
        ELSE [raised |-> FALSE,
              story_id |-> story_id,
              title |-> title,
              summary |-> IF MdTruthy(markdown) THEN Prefix(markdown.text, SUMMARY_LEN)
                          ELSE Prefix(description, SUMMARY_LEN),
              detected_components |-> detected_components,
              checklist |-> f.checklist,
              report_sections |-> f.report_sections,
              platform_matrix |-> f.platform_matrix,
              testing_tools |-> f.testing_tools,
              severity_table |-> f.severity_table,
              acceptance_criteria |-> f.acceptance_criteria,
              raw_markdown |-> markdown,
              created_at |-> <<now, "Z">>,
              meta |-> IF Truthy(meta) THEN meta ELSE PyDict(<<>>)]

----------------------------------------------------------------------------
(* Inputs of the assembler: at most MaxSections sections with different    *)
(* headers, a markdown that is None, empty or a text, and a parsed JSON    *)
(* that is None, no dict, or a dict of lists whose elements are strings,   *)
(* numbers, None, lists or dicts                                           *)

MaxSections == 2

SectionChoices ==
    {
      [header |-> <<"#", "#", "#", " ", "Checklist">>,
       body |-> <<"-", " ", "[", " ", "]", " ", "B">>],
      [header |-> <<"#", "#", "#", " ", "Accessibility", " ", "Checklist">>,
       body |-> <<"-", " ", "[", "x", "]", " ", "A", "\n", "1", ".", " ", "B">>],
      [header |-> <<"#", "#", "#", " ", "Checklist">>,
       body |-> <<"x">>],
      [header |-> <<"#", "#", "#", " ", "checklist">>,
       body |-> <<"-", " ", "[", " ", "]", " ", "B">>],
      [header |-> <<"#", "#", "#", " ", "Developer", " ", "Accessibility", " ", "Report">>,
       body |-> <<"*", "*", "Intent", ":", "*", "*", " ", "a", "\n", "-", " ", "x">>],
      [header |-> <<"#", "#", "#", " ", "Accessibility", " ", "Report">>,
       body |-> <<"-", " ", "y">>],
      [header |-> <<"#", "#", "#", " ", "Platform", " ", "Matrix">>,
       body |-> <<"|", " ", "Attribute", " ", "|", " ", "Web", " ", "|", "\n", "|", "-", "-", "-", "|", "-", "-", "-", "|", "\n", "|", " ", "Focus", " ", "|", " ", "a", " ", "|">>],
      [header |-> <<"#", "#", "#", " ", "Platform", " ", "Matrix", " ", "Acceptance">>,
       body |-> <<"-", " ", "a">>],
      [header |-> <<"#", "#", "#", " ", "Testing", " ", "Tools">>,
       body |-> <<"-", " ", "axe", "\n", "*", " ", "Lighthouse">>],
      [header |-> <<"#", "#", "#", " ", "Testing", " ", "Tools">>,
       body |-> <<>>],
      [header |-> <<"#", "#", "#", " ", "Severity">>,
       body |-> <<"|", " ", "Issue", " ", "|", " ", "Severity", " ", "|", "\n", "|", "-", "-", "-", "|", "-", "-", "-", "|", "\n", "|", " ", "Contrast", " ", "|", " ", "High", " ", "|">>],
      [header |-> <<"#", "#", "#", " ", "Severity", " ", "Checklist">>,
       body |-> <<"-", " ", "[", " ", "]", " ", "B">>],
      [header |-> <<"#", "#", "#", " ", "Acceptance", " ", "Criteria">>,
       body |-> <<"-", " ", "a", "\n", "2", ".", " ", "b">>],
      [header |-> <<"#", "#", "#", " ", "Summary">>,
       body |-> <<"a">>] }

JsonChoices ==
    {
      PyNone,
      PyDict(<<>>),
      PyList(<<PyStr(<<"A">>)>>),
      PyDict(<<Pair("checklist", PyList(<<PyStr(<<"A">>)>>))>>),
      PyDict(<<Pair("checklist", PyList(<<>>)),
        Pair("developer_checklist", PyList(<<PyStr(<<"A">>),
        PyInt(<<"1">>)>>)), Pair("platforms",
        PyList(<<PyDict(<<Pair("attribute", PyStr(<<"a">>)), Pair("web",
        PyStr(<<"b">>))>>), PyStr(<<"x">>)>>)), Pair("tools",
        PyList(<<PyStr(<<"axe">>), PyDict(<<Pair("tool",
        PyStr(<<"b">>))>>), PyDict(<<>>)>>)), Pair("severity",
        PyList(<<PyDict(<<Pair("issue_type", PyStr(<<"a">>)),
        Pair("severity", PyStr(<<"High">>))>>)>>)), Pair("acceptance",
        PyList(<<PyStr(<<"a">>), PyNone>>))>>),
      PyDict(<<Pair("severity_table", PyList(<<PyStr(<<"High">>)>>)),
        Pair("testing_tools", PyStr(<<"axe">>)),
        Pair("acceptance_criteria",
        PyList(<<PyList(<<PyStr(<<"a">>)>>)>>))>>),
      PyDict(<<Pair("checklist", PyList(<<PyStr(<<"A">>)>>)),
        Pair("testing_tools", PyList(<<PyInt(<<"1">>)>>))>>),
      PyDict(<<Pair("checklist", PyList(<<PyStr(<<"A">>)>>)),
        Pair("platform_matrix", PyList(<<PyDict(<<Pair("web",
        PyStr(<<"b">>))>>)>>))>>),
      PyDict(<<Pair("checklist", PyList(<<PyStr(<<"A">>)>>)),
        Pair("severity", PyList(<<PyDict(<<Pair("issue_type",
        PyNone)>>)>>))>>) }

MarkdownChoices ==
    { NoneArg, StrArg(<<>>), StrArg(<<"#", "#", "#", " ", "Checklist">> \o <<NL>> \o <<"-", " ", "[", " ", "]", " ", "B">>) }

\* the other arguments of the call, and the readings of the clock
STORY_ID == <<"A", "-", "1">>
TITLE == <<"a", " ", "b">>
DESCRIPTION == <<"x", " ", "y">>
COMPONENTS == <<[name |-> <<"b", "u", "t", "t", "o", "n">>, type |-> <<"c", "o", "n", "t", "r", "o", "l">>, hint |-> None]>>
Times == {"2024-01-01T00:00:00", "2024-01-01T00:00:01"}

\* the Markdown document that has the sections ss
DocumentOf(ss) ==
    JoinLines(Flatten([i \in 1..Len(ss) |-> <<ss[i].header, ss[i].body>>]))

InitAssemble ==
    /\ pc = "idle"
    /\ \E n \in 0..MaxSections : \E ss \in [1..n -> SectionChoices] :
       \E markdown \in MarkdownChoices \cup {StrArg(DocumentOf(ss))} :
       \E parsed_json \in JsonChoices :
          /\ \A i, j \in 1..n : i # j => ss[i].header # ss[j].header
          /\ ai_result = [markdown |-> markdown, sections |-> ss,
                          parsed_json |-> parsed_json]
    /\ report = NoReport
    /\ second_pass = NoReport
    /\ ai_output = NoneArg
    /\ extracted = NoResult
    /\ v5 = V5Fallback
    /\ md = NoneArg
    /\ sections = <<>>
    /\ section_body = NoneArg
    /\ parsed = NoParsed
    /\ StoreIdle
    /\ ServiceIdle

\* the input of a second pass: the report's raw_markdown split into
\* sections, with no JSON
SecondInput ==
    [markdown |-> report.raw_markdown,
     sections |-> _extract_markdown_sections(report.raw_markdown),
     parsed_json |-> PyNone]

\* one call of build_deep_report: the first on ai_result, the second on
\* what the first returned
Assemble ==
    /\ pc \in {"idle", "assembled"}
    /\ pc = "assembled" => ~report.raised
    /\ \E now \in Times :
       \E input \in {IF pc = "idle" THEN ai_result ELSE SecondInput} :
       \E built \in {build_deep_report(STORY_ID, TITLE, DESCRIPTION, COMPONENTS,
                                       input, PyNone, now)} :
          IF pc = "idle"
          THEN /\ pc' = "assembled"
               /\ report' = built
               /\ second_pass' = second_pass
          ELSE /\ pc' = "reassembled"
               /\ second_pass' = built
               /\ report' = report
    /\ UNCHANGED <<ai_result, extractVars, splitVars, parseVars, storeVars, serviceVars>>

NextAssemble == Assemble

SpecAssemble == InitAssemble /\ [][NextAssemble]_vars

----------------------------------------------------------------------------
(* The report store: services/db_service.py on reports_collection, a       *)
(* collection of a document database keyed by _id.  A document and a dict  *)
(* of fields are functions from field names to values.                     *)

NoDoc == <<>>

\* datetime.utcnow() at the reading t of the clock, and d.isoformat()
Datetime(t) == [kind |-> "datetime", t |-> t]
isoformat(d) == [kind |-> "str", t |-> d.t]

\* {**doc, **fields}
Merge(doc, fields) ==
    [k \in DOMAIN doc \cup DOMAIN fields |->
        IF k \in DOMAIN fields THEN fields[k] ELSE doc[k]]

\* a filter that keeps every key
RestrictNothing(d, keys) == d

\* {k: v for k, v in d.items() if k in keys}
Restrict(d, keys) == [k \in DOMAIN d \cap keys |-> d[k]]

\* reports_collection.find_one({"_id": id}): the document, or None
find_one(coll, id) ==
    IF \E d \in coll : d["_id"] = id
    THEN CHOOSE d \in coll : d["_id"] = id
    ELSE NoDoc

\* reports_collection.update_one({"_id": id}, {"$set": set, "$setOnInsert":
\* setOnInsert}, upsert): the fields of $set are written into the matched
\* document and its other fields stay; without a match an upsert inserts
\* the document made of the filter, $set and $setOnInsert
update_one(coll, id, set, setOnInsert, upsert) ==
    LET existing == find_one(coll, id)
    IN  IF existing # NoDoc
        THEN [coll |-> (coll \ {existing}) \cup {Merge(existing, set)},
              matched_count |-> 1, upserted |-> FALSE]
        ELSE IF upsert
        THEN [coll |-> coll \cup {Merge(Merge([_id |-> id], set), setOnInsert)},
              matched_count |-> 0, upserted |-> TRUE]
        ELSE [coll |-> coll, matched_count |-> 0, upserted |-> FALSE]

\* reports_collection.delete_one({"_id": id})
delete_one(coll, id) ==
    LET existing == find_one(coll, id)
    IN  IF existing # NoDoc
        THEN [coll |-> coll \ {existing}, deleted_count |-> 1]
        ELSE [coll |-> coll, deleted_count |-> 0]

\* save_report taking the time of this save as created_at in every case
save_report_restamping(coll, report_data, now) ==
    LET ticket_id == report_data.ticket_id
        data == Merge(report_data,
                      [_id |-> ticket_id, ticket_id |-> ticket_id,
                       updated_at |-> now, created_at |-> now])
        result == update_one(coll, ticket_id, data, <<>>, TRUE)
    IN  [coll |-> result.coll,
         write |-> [id |-> ticket_id, set |-> data, setOnInsert |-> <<>>,
                    upsert |-> TRUE],
         ticket_id |-> ticket_id,
         created |-> result.upserted,
         created_at |-> isoformat(now),
         updated_at |-> isoformat(now)]

\* a save_report that reports created = True in every case
save_report_created_always(coll, report_data, now) ==
    LET ticket_id == report_data.ticket_id
        existing == find_one(coll, ticket_id)
        created_at == IF existing # NoDoc /\ "created_at" \in DOMAIN existing
                      THEN existing.created_at ELSE now
        data == Merge(report_data,
                      [_id |-> ticket_id, ticket_id |-> ticket_id,
                       updated_at |-> now, created_at |-> created_at])
        set_data == Restrict(data, DOMAIN data \ {"created_at"})
        result == update_one(coll, ticket_id, set_data,
                             [created_at |-> created_at], TRUE)
    IN  [coll |-> result.coll,
         write |-> [id |-> ticket_id, set |-> set_data,
                    setOnInsert |-> [created_at |-> created_at], upsert |-> TRUE],
         ticket_id |-> ticket_id,
         created |-> TRUE,
         created_at |-> isoformat(created_at),
         updated_at |-> isoformat(now)]

\* save_report (lines 84-133) of a report_data that holds a ticket_id, at
\* the time now: the collection after it, the write it sent and its result
save_report(coll, report_data, now) ==
    LET ticket_id == report_data.ticket_id
        existing == find_one(coll, ticket_id)
        created_at == IF existing # NoDoc /\ "created_at" \in DOMAIN existing
                      THEN existing.created_at ELSE now
        data == Merge(report_data,
                      [_id |-> ticket_id, ticket_id |-> ticket_id,
                       updated_at |-> now, created_at |-> created_at])
        set_data == Restrict(data, DOMAIN data \ {"created_at"})
        result == update_one(coll, ticket_id, set_data,
                             [created_at |-> created_at], TRUE)
    IN  [coll |-> result.coll,
         write |-> [id |-> ticket_id, set |-> set_data,
                    setOnInsert |-> [created_at |-> created_at], upsert |-> TRUE],
         ticket_id |-> ticket_id,
         created |-> result.upserted,
         created_at |-> isoformat(created_at),
         updated_at |-> isoformat(now)]

\* the document an upsert of the write command inserts
Payload(write) == Merge(Merge([_id |-> write.id], write.set), write.setOnInsert)

\* db_write keeps, per ticket id, the last update_one sent for it
Sent(log, write) == Merge(log, [id \in {write.id} |-> write])

\* update_report (lines 136-140)
update_report(coll, ticket_id, update_fields) ==
    LET result == update_one(coll, ticket_id, update_fields, <<>>, FALSE)
    IN  [coll |-> result.coll, ok |-> result.matched_count > 0]

\* delete_report (lines 144-154)
delete_report(coll, ticket_id) ==
    LET result == delete_one(coll, ticket_id)
    IN  [coll |-> result.coll, ok |-> result.deleted_count > 0]

----------------------------------------------------------------------------
(* The /v5 handlers: routes/analyze_v5.py and routes/reports_v5.py.  The   *)
(* requests name one of two tickets; the clock is read at most MaxClock    *)
(* times.                                                                  *)

MaxClock == 4

TicketIds == {"T-1", "T-2"}
Summaries == {"s1", "s2"}
DESCRIPTION_V5 == "d"
DEFAULT_PLATFORM == "iOS"
NO_PROJECT_NAME == "None"
DEFAULT_AI_MODEL == "gpt-4o"

\* what the model answers to a request: a text without JSON, a text with a
\* framed JSON object, or no text (the call fails)
AiAnswers ==
    { StrArg(<<"a">>),
      StrArg(<<"b", JSON_START, "{", "k", "1", "}", JSON_END>>),
      NoneArg }

\* the bodies of PUT /v5/reports/{id}
ALLOWED_UPDATE_FIELDS ==
    {"summary", "description", "project_name", "platform", "json_report",
     "markdown_report"}

UpdateBodies ==
    { <<>>,
      [summary |-> "s2"],
      [summary |-> "s1", markdown_report |-> <<"m">>],
      [ticket_id |-> "T-9"],
      [summary |-> "s2", created_at |-> Datetime(0)] }

InitStore ==
    /\ pc = "serving"
    /\ StoreIdle
    /\ ServiceIdle
    /\ ai_output = NoneArg
    /\ extracted = NoResult
    /\ v5 = V5Fallback
    /\ md = NoneArg
    /\ sections = <<>>
    /\ ai_result = NoAiResult
    /\ report = NoReport
    /\ second_pass = NoReport
    /\ section_body = NoneArg
    /\ parsed = NoParsed

\* POST /v5/analyze (analyze_v5, lines 11-65)
AnalyzeV5 ==
    /\ pc = "serving"
    /\ utcnow < MaxClock
    /\ \E ticket_id \in TicketIds, summary \in Summaries, answer \in AiAnswers :
          LET generated == generate_a11y_report_v5(answer)
              report_data ==
                  [ticket_id |-> ticket_id,
                   summary |-> summary,
                   description |-> DESCRIPTION_V5,
                   platform |-> DEFAULT_PLATFORM,
                   project_name |-> NO_PROJECT_NAME,
                   ai_model |-> DEFAULT_AI_MODEL,
                   markdown_report |-> generated.markdown,
                   json_report |-> generated.json]
              save_result == save_report(reports_collection, report_data,
                                         Datetime(utcnow + 1))
          IN  /\ utcnow' = utcnow + 1
              /\ reports_collection' = save_result.coll
              /\ db_write' = Sent(db_write, save_result.write)
              /\ response' =
                    [op |-> "analyze", status_code |-> 200,
                     ticket_id |-> save_result.ticket_id,
                     platform |-> DEFAULT_PLATFORM,
                     updated |-> ~save_result.created,
                     created_at |-> save_result.created_at,
                     updated_at |-> save_result.updated_at,
                     markdown_report |-> generated.markdown,
                     json_report |-> generated.json,
                     saved |-> TRUE]
    /\ UNCHANGED <<pc, extractVars, splitVars, assembleVars, parseVars, serviceVars>>

\* the response of a handler that raised HTTPException(code)
Failed(op, id, status_code, raised) ==
    [op |-> op, status_code |-> status_code, ticket_id |-> id, raised |-> raised]

\* PUT /v5/reports/{id} (update_report_endpoint, lines 67-125): the
\* HTTPException of a failed check is raised inside the try and comes out
\* of the `except Exception` as a 500
UpdateReportEndpoint ==
    /\ pc = "serving"
    /\ \E id \in TicketIds, update_data \in UpdateBodies :
          LET existing_report == find_one(reports_collection, id)
              updated_fields == Restrict(update_data, ALLOWED_UPDATE_FIELDS)
          IN  IF update_data = <<>>
              THEN /\ response' = Failed("update", id, 500, 400)
                   /\ UNCHANGED <<reports_collection, utcnow, db_write>>
              ELSE IF existing_report = NoDoc
              THEN /\ response' = Failed("update", id, 500, 404)
                   /\ UNCHANGED <<reports_collection, utcnow, db_write>>
              ELSE IF updated_fields = <<>>
              THEN /\ response' = Failed("update", id, 500, 400)
                   /\ UNCHANGED <<reports_collection, utcnow, db_write>>
              ELSE /\ utcnow < MaxClock
                   /\ LET updated_at == isoformat(Datetime(utcnow + 1))
                          fields ==
                              Merge(updated_fields,
                                    [updated_at |-> updated_at,
                                     created_at |->
                                         IF "created_at" \in DOMAIN existing_report
                                         THEN existing_report.created_at
                                         ELSE updated_at])
                          result == update_report(reports_collection, id, fields)
                          updated_doc == find_one(result.coll, id)
                      IN  /\ utcnow' = utcnow + 1
                          /\ reports_collection' = result.coll
                          /\ db_write' =
                                Sent(db_write,
                                     [id |-> id, set |-> fields,
                                      setOnInsert |-> <<>>, upsert |-> FALSE])
                          /\ response' =
                                [op |-> "update", status_code |-> 200,
                                 ticket_id |-> id,
                                 updated |-> TRUE,
                                 created_at |-> updated_doc.created_at,
                                 updated_at |-> updated_doc.updated_at,
                                 markdown_report |-> updated_doc.markdown_report,
                                 json_report |-> updated_doc.json_report,
                                 saved |-> TRUE]
    /\ UNCHANGED <<pc, extractVars, splitVars, assembleVars, parseVars, serviceVars>>

\* DELETE /v5/reports/{id} (delete_report_endpoint, lines 128-133)
DeleteReportEndpoint ==
    /\ pc = "serving"
    /\ \E id \in TicketIds :
          LET result == delete_report(reports_collection, id)
          IN  /\ reports_collection' = result.coll
              /\ response' = IF result.ok
                             THEN [op |-> "delete", status_code |-> 200,
                                   ticket_id |-> id]
                             ELSE Failed("delete", id, 404, 404)
    /\ UNCHANGED <<pc, utcnow, db_write, extractVars, splitVars, assembleVars, parseVars, serviceVars>>

NextStore == AnalyzeV5 \/ UpdateReportEndpoint \/ DeleteReportEndpoint

SpecStore == InitStore /\ [][NextStore]_vars

----------------------------------------------------------------------------
(* The LLM client of /v2/analyze: ai_client.analyze_with_ai.  The LLM     *)
(* service is what a call finds: no client (no API key, or the client     *)
(* cannot be built), a request that raises, or a response whose message   *)
(* content is None or a text.                                             *)

\* MOCK_MARKDOWN (lines 18-55), two of its sections
MOCK_MARKDOWN ==
    <<NL, "#", "#", "#", " ", "Platform", " ", "Matrix", NL,
      "|", " ", "a", " ", "|", NL, NL,
      "#", "#", "#", " ", "Testing", " ", "Tools", NL,
      "*", " ", "x", NL, " ", " ">>

\* a value json.loads returned
JsonValue(v) == [kind |-> "json", text |-> v]

\* text.index("{"), text.rindex("}") + 1 and the slice between them; index
\* and rindex raise ValueError when the brace is not there
BraceSnippet(s) ==
    LET opens == {i \in 1..Len(s) : s[i] = "{"}
        closes == {i \in 1..Len(s) : s[i] = "}"}
    IN  IF opens = {} \/ closes = {} THEN [found |-> FALSE, text |-> <<>>]
        ELSE [found |-> TRUE, text |-> SubSeq(s, SetMin(opens), SetMax(closes))]

\* lines 72-85
_parse_ai_json_text(text) ==
    LET stripped == Strip(IF text.kind = "str" THEN text.text ELSE <<>>)
        whole == JsonLoads(stripped)
        snippet == BraceSnippet(stripped)
        inner == JsonLoads(snippet.text)
    IN  IF stripped = <<>> THEN NoneArg
        ELSE IF whole.ok THEN JsonValue(whole.val)
        ELSE IF snippet.found /\ inner.ok THEN JsonValue(inner.val)
        ELSE NoneArg

\* `not parsed_json`
NotParsed(parsed_json) ==
    parsed_json.kind = "None" \/ ~JsonTruthy(parsed_json.text)

\* lines 158-161, 183-186, 194-197: the mock result
MockResult ==
    [source |-> "mock", markdown |-> StrArg(MOCK_MARKDOWN),
     sections |-> _extract_markdown_sections(StrArg(MOCK_MARKDOWN)),
     parsed_json |-> NoneArg]

\* analyze_with_ai returning the response text as Markdown next to the
\* parsed JSON
analyze_with_ai_both(service) ==
    IF ~service.client \/ service.raises THEN MockResult
    ELSE IF service.text.kind # "str" \/ service.text.text = <<>> THEN MockResult
    ELSE [source |-> "openai", markdown |-> service.text,
          sections |-> _extract_markdown_sections(service.text),
          parsed_json |-> IF NotParsed(_parse_ai_json_text(service.text))
                          THEN NoneArg
                          ELSE _parse_ai_json_text(service.text)]

\* analyze_with_ai answering "openai" for an empty response
analyze_with_ai_no_fallback(service) ==
    IF ~service.client \/ service.raises THEN MockResult
    ELSE [source |-> "openai", markdown |-> service.text,
          sections |-> _extract_markdown_sections(service.text),
          parsed_json |-> NoneArg]

\* lines 146-197
analyze_with_ai(service) ==
    IF ~service.client THEN MockResult
    ELSE IF service.raises THEN MockResult
    ELSE IF service.text.kind # "str" \/ service.text.text = <<>> THEN MockResult
    ELSE LET parsed_json == _parse_ai_json_text(service.text)
         IN  IF NotParsed(parsed_json)
             THEN [source |-> "openai", markdown |-> service.text,
                   sections |-> _extract_markdown_sections(service.text),
                   parsed_json |-> NoneArg]
             ELSE [source |-> "openai", markdown |-> NoneArg,
                   sections |-> <<>>, parsed_json |-> parsed_json]

----------------------------------------------------------------------------
(* Inputs of analyze_with_ai: every LLM service, its response text any     *)
(* concatenation of at most MaxPieces pieces                               *)

MaxPieces == 3

Pieces ==
    { <<>>, <<"a">>, <<" ">>, <<NL>>, <<"#", "#", "#", " ", "Checklist", NL, "-", " ", "x">>,
      <<"{", "}">>, <<"{", "k", "1", "}">>, <<"[", "1", "]">>, <<"[", "]">>,
      <<" ", "0">>, <<" ", "1">>, <<"{", "k">>, <<"}">> }

ResponseTexts ==
    {NoneArg} \cup {StrArg(Flatten(ps)) : ps \in [1..MaxPieces -> Pieces]}

LlmServices ==
    {[client |-> FALSE, raises |-> FALSE, text |-> NoneArg],
     [client |-> TRUE, raises |-> TRUE, text |-> NoneArg]}
        \cup {[client |-> TRUE, raises |-> FALSE, text |-> t] : t \in ResponseTexts}

InitAi ==
    /\ pc = "idle"
    /\ llm \in LlmServices
    /\ collection = <<>>
    /\ calls = NoCalls
    /\ ai_result = NoAiResult
    /\ report = NoReport
    /\ second_pass = NoReport
    /\ ai_output = NoneArg
    /\ extracted = NoResult
    /\ v5 = V5Fallback
    /\ md = NoneArg
    /\ sections = <<>>
    /\ section_body = NoneArg
    /\ parsed = NoParsed
    /\ StoreIdle

\* the call ai_result = analyze_with_ai(user_story.dict()) of analyze_v2
\* (main.py line 80); ai_result reaches build_deep_report as it is
AnalyzeWithAi ==
    /\ pc = "idle"
    /\ ai_result' = analyze_with_ai(llm)
    /\ pc' = "analyzed"
    /\ UNCHANGED <<report, second_pass, extractVars, splitVars, parseVars,
                   storeVars, serviceVars>>

NextAi == AnalyzeWithAi

SpecAi == InitAi /\ [][NextAi]_vars

----------------------------------------------------------------------------
(* The JSON-only report path: main.analyze_v3json, with                    *)
(* ai_client.analyze_with_ai_v3json, the model A11yV3JSONOut of schemas.py *)
(* (validated with the pydantic 2 API the handler calls) and               *)
(* db.save_v3json_to_db.  The message content of the LLM response is None, *)
(* a text that is no JSON, or a JSON document, which is given by the value *)
(* json.loads makes of it.                                                 *)

PyFloat(digits) == [t |-> "float", v |-> digits]

\* d[key] = value, a new key going to the end
PySetItem(d, key, value) ==
    LET idx == {i \in 1..Len(d.v) : d.v[i].key = key}
    IN  IF idx = {} THEN PyDict(Append(d.v, Pair(key, value)))
        ELSE PyDict([i \in 1..Len(d.v) |->
                        IF i \in idx THEN Pair(key, value) ELSE d.v[i]])

\* `key in d` for a dict
HasKey(d, key) == \E i \in 1..Len(d.v) : d.v[i].key = key

\* `key in x` for the values that have the operator: a dict (its keys), a
\* list (its elements), a str (its substrings; no text of the inputs holds
\* a key as a word)
InPy(key, x) ==
    CASE x.t = "dict" -> HasKey(x, key)
      [] x.t = "list" -> \E i \in 1..Len(x.v) : x.v[i] = PyStr(<<key>>)
      [] OTHER -> Contains(x.v, key)

\* ai_client.py line 431: what the function returns without a client
V3_MOCK_JSON ==
    PyDict(<<Pair("developer_checklist", PyList(<<PyStr(<<"Mocked item">>)>>)),
             Pair("metadata",
                  PyDict(<<Pair("generated_at", PyStr(<<"N/A">>)),
                           Pair("model_version", PyStr(<<"mock">>)),
                           Pair("confidence_score", PyFloat(<<"0.0">>))>>))>>)

\* ai_client.py line 449: str(e) under the key "error"
V3ErrorJson == PyDict(<<Pair("error", PyStr(<<"e">>))>>)

\* ai_client.py lines 429-449
analyze_with_ai_v3json(service) ==
    IF ~service.client
    THEN [source |-> "mock", parsed_json |-> V3_MOCK_JSON]
    ELSE IF service.raises \/ service.content.kind # "json"
    THEN [source |-> "mock", parsed_json |-> V3ErrorJson]
    ELSE [source |-> "openai", parsed_json |-> service.content.value]

\* the fields of A11yV3JSONOut (schemas.py lines 187-195), in their order
V3_FIELDS ==
    <<"wcag_overview", "developer_checklist", "developer_report",
      "platform_matrix", "testing_tools", "severity_predictions",
      "acceptance_criteria", "metadata">>

\* List[str]
StrListOk(x) == x.t = "list" /\ \A i \in 1..Len(x.v) : x.v[i].t = "str"

\* a list of one of the item models; the inputs give such a list no element
\* that is a dict
ItemListOk(x) == x.t = "list" /\ x.v = <<>>

\* Metadata (schemas.py lines 182-185)
MetadataOk(x) ==
    /\ x.t = "dict"
    /\ HasKey(x, "generated_at") /\ DictGet(x, "generated_at").t = "str"
    /\ HasKey(x, "model_version") /\ DictGet(x, "model_version").t = "str"
    /\ HasKey(x, "confidence_score")
    /\ DictGet(x, "confidence_score").t \in {"float", "int"}

\* A11yV3JSONOut.model_validate(x) does not raise ValidationError
V3Valid(x) ==
    /\ x.t = "dict"
    /\ \A k \in 1..Len(V3_FIELDS) : HasKey(x, V3_FIELDS[k])
    /\ StrListOk(DictGet(x, "developer_checklist"))
    /\ StrListOk(DictGet(x, "acceptance_criteria"))
    /\ \A f \in {"wcag_overview", "developer_report", "platform_matrix",
                 "testing_tools", "severity_predictions"} :
          ItemListOk(DictGet(x, f))
    /\ MetadataOk(DictGet(x, "metadata"))

\* validated.model_dump(): the fields of the model and no other key
model_dump(x) ==
    PyDict([k \in 1..Len(V3_FIELDS) |->
               Pair(V3_FIELDS[k], DictGet(x, V3_FIELDS[k]))])

\* d.isoformat() + "Z" as a str value
IsoZ(t) == PyStr(<<"t", t, "Z">>)

\* main.py lines 198-206: the three defaults of the metadata
WithMetadataDefaults(metadata, now) ==
    LET m1 == IF HasKey(metadata, "generated_at") THEN metadata
              ELSE PySetItem(metadata, "generated_at", IsoZ(now))
        m2 == IF HasKey(m1, "model_version") THEN m1
              ELSE PySetItem(m1, "model_version", PyStr(<<"gpt-5">>))
    IN  IF HasKey(m2, "confidence_score") THEN m2
        ELSE PySetItem(m2, "confidence_score", PyFloat(<<"0.0">>))

V3_METADATA_KEYS == {"generated_at", "model_version", "confidence_score"}

\* db.py lines 73-100: the document as the call leaves it (the caller's
\* dict gets _saved_at) and the documents of the collection; without a
\* connection, and when the insert raises, nothing is stored
save_v3json_to_db(coll, v3json, now, insert_ok) ==
    IF ~coll.connected THEN [coll |-> coll, v3json |-> v3json]
    ELSE LET stamped == PySetItem(v3json, "_saved_at", IsoZ(now))
         IN  [coll |-> IF insert_ok
                       THEN [coll EXCEPT !.docs = Append(@, stamped)]
                       ELSE coll,
              v3json |-> stamped]

\* a response of /v3json/analyze: an error names where it was raised
V3Error(detail, stage) ==
    [op |-> "v3json", status_code |-> 500, detail |-> detail, stage |-> stage]

\* main.py lines 185-237, and the response_model of line 185: FastAPI
\* validates what the handler returned against A11yV3JSONOut and answers
\* 500 when it does not fit
analyze_v3json(service, coll, now, insert_ok) ==
    LET ai == analyze_with_ai_v3json(service)
        parsed_json == IF Truthy(ai.parsed_json) THEN ai.parsed_json ELSE PyDict(<<>>)
    IN  IF ~Truthy(parsed_json)
        THEN [coll |-> coll, response |-> V3Error("no parsed_json", "handler")]
        ELSE IF parsed_json.t # "dict"
        THEN \* parsed.get: AttributeError, caught by `except Exception`
             [coll |-> coll, response |-> V3Error("failed", "handler")]
        ELSE LET metadata == IF HasKey(parsed_json, "metadata")
                             THEN DictGet(parsed_json, "metadata") ELSE PyDict(<<>>)
             IN  IF metadata.t \notin {"dict", "list", "str"}
                 THEN \* `in` on None or a number: TypeError
                      [coll |-> coll, response |-> V3Error("failed", "handler")]
                 ELSE IF metadata.t # "dict"
                         /\ \E k \in V3_METADATA_KEYS : ~InPy(k, metadata)
                 THEN \* item assignment on a str or a list: TypeError
                      [coll |-> coll, response |-> V3Error("failed", "handler")]
                 ELSE LET filled == IF metadata.t = "dict"
                                    THEN WithMetadataDefaults(metadata, now)
                                    ELSE metadata
                          whole == PySetItem(parsed_json, "metadata", filled)
                          valid == V3Valid(whole)
                          validated_dict == IF valid THEN model_dump(whole) ELSE whole
                          saved == save_v3json_to_db(coll, validated_dict, now, insert_ok)
                      IN  [coll |-> saved.coll,
                           response |->
                               IF V3Valid(saved.v3json)
                               THEN [op |-> "v3json", status_code |-> 200,
                                     body |-> model_dump(saved.v3json),
                                     validated |-> valid]
                               ELSE V3Error("response validation", "response_model")]

----------------------------------------------------------------------------
(* Inputs of /v3json/analyze: the LLM service, and at most MaxRequests     *)
(* requests on a database that is connected or not                         *)

MaxRequests == 2

\* the seven list fields of a document that fits the model
V3_LISTS ==
    <<Pair("wcag_overview", PyList(<<>>)),
      Pair("developer_checklist", PyList(<<PyStr(<<"a">>)>>)),
      Pair("developer_report", PyList(<<>>)),
      Pair("platform_matrix", PyList(<<>>)),
      Pair("testing_tools", PyList(<<>>)),
      Pair("severity_predictions", PyList(<<>>)),
      Pair("acceptance_criteria", PyList(<<PyStr(<<"b">>)>>))>>

V3_METADATA ==
    PyDict(<<Pair("generated_at", PyStr(<<"t">>)),
             Pair("model_version", PyStr(<<"gpt-4">>)),
             Pair("confidence_score", PyFloat(<<"0.95">>))>>)

V3Documents ==
    << PyNone, PyDict(<<>>), PyList(<<>>), PyInt(<<"0">>), PyInt(<<"1">>),
      PyStr(<<"a">>), PyList(<<PyStr(<<"a">>)>>),
      PyDict(V3_LISTS \o <<Pair("metadata", V3_METADATA)>>),
      PyDict(V3_LISTS \o <<Pair("metadata", V3_METADATA), Pair("note", PyStr(<<"a">>))>>),
      PyDict(V3_LISTS),
      PyDict(V3_LISTS \o <<Pair("metadata", PyDict(<<Pair("model_version", PyStr(<<"x">>))>>))>>),
      PyDict(V3_LISTS \o <<Pair("metadata", PyNone)>>),
      PyDict(V3_LISTS \o <<Pair("metadata", PyStr(<<"v1">>))>>),
      PyDict(V3_LISTS \o <<Pair("metadata", PyList(<<>>))>>),
      PyDict(<<Pair("developer_checklist", PyList(<<PyStr(<<"a">>)>>))>>),
      PyDict(<<Pair("developer_checklist", PyList(<<PyInt(<<"1">>)>>)),
               Pair("metadata", V3_METADATA)>>),
      PyDict(<<Pair("wcag_overview", PyStr(<<"a">>))>> \o Tail(V3_LISTS)
                 \o <<Pair("metadata", V3_METADATA)>>) >>

\* the services, in a sequence: no client, a request that raises, a
\* content that is None, a text that is no JSON, and every document
V3Services ==
    <<[client |-> FALSE, raises |-> FALSE, content |-> [kind |-> "None", value |-> PyNone]],
      [client |-> TRUE, raises |-> TRUE, content |-> [kind |-> "None", value |-> PyNone]],
      [client |-> TRUE, raises |-> FALSE, content |-> [kind |-> "None", value |-> PyNone]],
      [client |-> TRUE, raises |-> FALSE, content |-> [kind |-> "text", value |-> PyNone]]>>
        \o [i \in 1..Len(V3Documents) |->
                [client |-> TRUE, raises |-> FALSE,
                 content |-> [kind |-> "json", value |-> V3Documents[i]]]]

InitV3Json ==
    /\ pc = "serving"
    /\ llm = NoLlm
    /\ \E connected \in BOOLEAN : collection = [connected |-> connected, docs |-> <<>>]
    /\ calls = NoCalls
    /\ reports_collection = {}
    /\ utcnow = 0
    /\ db_write = NoWrite
    /\ response = NoResponse
    /\ ai_result = NoAiResult
    /\ report = NoReport
    /\ second_pass = NoReport
    /\ ai_output = NoneArg
    /\ extracted = NoResult
    /\ v5 = V5Fallback
    /\ md = NoneArg
    /\ sections = <<>>
    /\ section_body = NoneArg
    /\ parsed = NoParsed

\* POST /v3json/analyze (analyze_v3json, main.py lines 185-237)
AnalyzeV3Json ==
    /\ pc = "serving"
    /\ utcnow < MaxRequests
    /\ \E i \in 1..Len(V3Services), insert_ok \in BOOLEAN :
          LET service == V3Services[i]
              result == analyze_v3json(service, collection, utcnow + 1, insert_ok)
          IN  /\ llm' = service
              /\ ai_result' = analyze_with_ai_v3json(service)
              /\ collection' = result.coll
              /\ response' = result.response
              /\ utcnow' = utcnow + 1
    /\ UNCHANGED <<pc, report, second_pass, reports_collection, db_write, calls,
                   extractVars, splitVars, parseVars>>

NextV3Json == AnalyzeV3Json

SpecV3Json == InitV3Json /\ [][NextV3Json]_vars

----------------------------------------------------------------------------
(* Concurrent calls of db_service.save_report.  A call reads the clock,    *)
(* looks its ticket id up with find_one and sends its update_one; the      *)
(* store runs each of the two commands atomically, and the calls of        *)
(* different requests interleave between them.                             *)

MaxCalls == 3

NoSaveResult == <<>>

\* lines 94-95: the call has its report_data and has read nothing yet
CallStarting(ticket_id) ==
    [at |-> "start", ticket_id |-> ticket_id, now |-> Datetime(0),
     existing |-> NoDoc, result |-> NoSaveResult]

InitSave ==
    /\ pc = "serving"
    /\ calls \in [1..MaxCalls -> {CallStarting(id) : id \in TicketIds}]
    /\ llm = NoLlm
    /\ collection = <<>>
    /\ StoreIdle
    /\ ai_output = NoneArg
    /\ extracted = NoResult
    /\ v5 = V5Fallback
    /\ md = NoneArg
    /\ sections = <<>>
    /\ ai_result = NoAiResult
    /\ report = NoReport
    /\ second_pass = NoReport
    /\ section_body = NoneArg
    /\ parsed = NoParsed

\* line 95: now = datetime.utcnow()
SaveReadClock ==
    /\ \E c \in 1..MaxCalls :
          /\ calls[c].at = "start"
          /\ utcnow' = utcnow + 1
          /\ calls' = [calls EXCEPT ![c].at = "find",
                                    ![c].now = Datetime(utcnow + 1)]
    /\ UNCHANGED <<pc, reports_collection, db_write, response, llm, collection,
                   extractVars, splitVars, assembleVars, parseVars>>

\* line 98: existing = reports_collection.find_one({"_id": ticket_id})
SaveFind ==
    /\ \E c \in 1..MaxCalls :
          /\ calls[c].at = "find"
          /\ calls' = [calls EXCEPT
                          ![c].at = "upsert",
                          ![c].existing = find_one(reports_collection, calls[c].ticket_id)]
    /\ UNCHANGED <<pc, reports_collection, utcnow, db_write, response, llm,
                   collection, extractVars, splitVars, assembleVars, parseVars>>

\* lines 99-129: created_at from what the find gave, the upsert, and the
\* result of the call
SaveUpsert ==
    /\ \E c \in 1..MaxCalls :
          /\ calls[c].at = "upsert"
          /\ LET ticket_id == calls[c].ticket_id
                 now == calls[c].now
                 existing == calls[c].existing
                 created_at == IF existing # NoDoc /\ "created_at" \in DOMAIN existing
                               THEN existing.created_at ELSE now
                 set_data == [_id |-> ticket_id, ticket_id |-> ticket_id,
                              updated_at |-> now]
                 result == update_one(reports_collection, ticket_id, set_data,
                                      [created_at |-> created_at], TRUE)
             IN  /\ reports_collection' = result.coll
                 /\ db_write' =
                       Sent(db_write,
                            [id |-> ticket_id, set |-> set_data,
                             setOnInsert |-> [created_at |-> created_at],
                             upsert |-> TRUE])
                 /\ calls' = [calls EXCEPT
                                 ![c].at = "done",
                                 ![c].result =
                                     [ticket_id |-> ticket_id,
                                      created |-> result.upserted,
                                      created_at |-> isoformat(created_at),
                                      updated_at |-> isoformat(now)]]
    /\ UNCHANGED <<pc, utcnow, response, llm, collection,
                   extractVars, splitVars, assembleVars, parseVars>>

NextSave == SaveReadClock \/ SaveFind \/ SaveUpsert

SpecSave == InitSave /\ [][NextSave]_vars

----------------------------------------------------------------------------
(* Properties of the Text Extractor (checked under SpecExtract)            *)

Extracted == pc = "extracted"
ExtractedV5 == pc = "extracted_v5"
IsStr == ai_output.kind = "str"
Text == ai_output.text

\* "no structured data": the empty object or the default structure
NoData(j) == j \in {EMPTY_DICT, DEFAULT_JSON}

\* the positions <<i, j>> with Text = P \o <<JSON_START>> \o X \o <<JSON_END>> \o S,
\* P = Text[1..i-1], X = Text[i+1..j-1] valid JSON
Framings ==
    {ij \in (1..Len(Text)) \X (1..Len(Text)) :
        /\ ij[1] < ij[2]
        /\ Text[ij[1]] = JSON_START
        /\ Text[ij[2]] = JSON_END
        /\ JsonLoads(SubSeq(Text, ij[1] + 1, ij[2] - 1)).ok}

PrefixOf(ij) == SubSeq(Text, 1, ij[1] - 1)
FramedValue(ij) == JsonLoads(SubSeq(Text, ij[1] + 1, ij[2] - 1)).val

\* the framings whose prefix holds no start sentinel
FirstFramings == {ij \in Framings : ~Contains(PrefixOf(ij), JSON_START)}

OrNoContent(m) == IF m = <<>> THEN NO_CONTENT_MARKDOWN ELSE m
OrDefault(j) == IF JsonTruthy(j) THEN j ELSE DEFAULT_JSON

\* C2 as claimed: for every P + START + X + END + S with X valid JSON, the
\* Markdown part is P trimmed and the JSON part is exactly parse(X), also
\* for empty objects and arrays and for an empty P.
C2_AsClaimed ==
    IsStr =>
        \A ij \in Framings :
            /\ Extracted => /\ extracted.markdown = Strip(PrefixOf(ij))
                            /\ extracted.json = FramedValue(ij)
            /\ ExtractedV5 => /\ v5.markdown = Strip(PrefixOf(ij))
                              /\ v5.json = FramedValue(ij)

\* C2 amended: for every P + START + X + END + S with X valid JSON and no
\* start sentinel in P, parse_to_markdown_and_json returns P trimmed, or the
\* "(No content)" placeholder when that is empty, and parse(X), or the
\* default structure when parse(X) is an empty (falsy) value;
\* generate_a11y_report_v5 returns P trimmed and parse(X), or {} when
\* parse(X) is falsy.
C2_FramedJson ==
    IsStr =>
        \A ij \in FirstFramings :
            /\ Extracted => /\ extracted.markdown = OrNoContent(Strip(PrefixOf(ij)))
                            /\ extracted.json = OrDefault(FramedValue(ij))
            /\ ExtractedV5 => /\ v5.source = "openai"
                              /\ v5.markdown = Strip(PrefixOf(ij))
                              /\ v5.json = IF JsonTruthy(FramedValue(ij))
                                           THEN FramedValue(ij) ELSE EMPTY_DICT

C2_Witness ==
    /\ Extracted /\ IsStr
    /\ \E ij \in FirstFramings :
          /\ Strip(PrefixOf(ij)) # <<>>
          /\ Contains(FramedValue(ij), "k")
          /\ JsonTruthy(FramedValue(ij))
          /\ extracted.json = FramedValue(ij)

\* the precondition of C3: no sentinel, and no "{" with a later "}"
NoJsonShape ==
    /\ IsStr
    /\ ~Contains(Text, JSON_START)
    /\ ~Contains(Text, JSON_END)
    /\ ~\E i, j \in 1..Len(Text) : i < j /\ Text[i] = "{" /\ Text[j] = "}"

\* C3 as claimed: an input with neither sentinel nor a {...} substring
\* yields (input trimmed, no JSON data).
C3_AsClaimed ==
    Extracted /\ NoJsonShape =>
        /\ extracted.markdown = Strip(Text)
        /\ NoData(extracted.json)

\* C3 amended: such an input yields the trimmed input as Markdown, or the
\* "(No content)" placeholder when the input is non-empty and blank, and as
\* JSON the default structure ({} for the empty string).
C3_PlainText ==
    Extracted /\ NoJsonShape =>
        /\ extracted.markdown =
              IF Text # <<>> THEN OrNoContent(Strip(Text)) ELSE <<>>
        /\ extracted.json = IF Text # <<>> THEN DEFAULT_JSON ELSE EMPTY_DICT

C3_Witness ==
    /\ Extracted /\ NoJsonShape
    /\ Contains(Text, "}") /\ Contains(Text, "{")
    /\ Strip(Text) # Text
    /\ extracted.markdown = Strip(Text)

\* the region the extractor delimited parses neither as it is nor after
\* the trailing-comma cleanup
RegionUnparseable ==
    /\ IsStr /\ Contains(Text, JSON_START)
    /\ ~JsonLoads(extracted.json_raw).ok
    /\ ~JsonLoads(SubTrailingComma(SubTrailingComma(extracted.json_raw, "}"), "]")).ok

\* no start sentinel, and the text from the first "{" to the last "}" is
\* missing or does not parse
InlineUnparseable ==
    /\ IsStr /\ Text # <<>> /\ ~Contains(Text, JSON_START)
    /\ LET opens == {i \in 1..Len(Text) : Text[i] = "{"}
           closes == {i \in 1..Len(Text) : Text[i] = "}"}
       IN  \/ opens = {} \/ closes = {}
           \/ SetMax(closes) < SetMin(opens)
           \/ ~JsonLoads(SubSeq(Text, SetMin(opens), SetMax(closes))).ok

FirstStart == FindFrom(Text, JSON_START, 1)
AfterFirstStart == SubSeq(Text, FirstStart + 1, Len(Text))
RegionAsSpecified ==
    LET e == FindFrom(AfterFirstStart, JSON_END, 1)
    IN  IF e = 0 THEN AfterFirstStart ELSE SubSeq(AfterFirstStart, 1, e - 1)

\* strict parse, then the parse after the comma cleanup, else no data
LoadWithRepair(region) ==
    LET first == JsonLoads(region)
        second == JsonLoads(SubTrailingComma(SubTrailingComma(region, "}"), "]"))
    IN  IF first.ok THEN first.val
        ELSE IF second.ok THEN second.val
        ELSE EMPTY_DICT

\* C5 as claimed: with a start sentinel in the text, also with several, the
\* Markdown part is what precedes the first one and the JSON part is what
\* the region after the first one (cut at the first end sentinel) parses to.
C5_AsClaimed ==
    Extracted /\ IsStr /\ Contains(Text, JSON_START) =>
        /\ extracted.markdown = OrNoContent(Strip(SubSeq(Text, 1, FirstStart - 1)))
        /\ extracted.json = OrDefault(LoadWithRepair(RegionAsSpecified))

\* C6 as claimed: when the delimited region fails both parses the JSON
\* part is empty and the Markdown part is the full original text.
C6_AsClaimed ==
    Extracted /\ RegionUnparseable =>
        /\ ~extracted.raised
        /\ NoData(extracted.json)
        /\ extracted.markdown \in {Text, Strip(Text)}

\* C6 amended: when the delimited region fails both parses the extractor
\* does not raise, the JSON part is the default structure and the Markdown
\* part is the text before the first start sentinel, trimmed (the
\* "(No content)" placeholder when that is empty).
C6_RegionFailure ==
    Extracted /\ RegionUnparseable =>
        /\ ~extracted.raised
        /\ extracted.json = DEFAULT_JSON
        /\ extracted.markdown = OrNoContent(Strip(SubSeq(Text, 1, FirstStart - 1)))

C6_Witness ==
    /\ Extracted /\ RegionUnparseable
    /\ Contains(extracted.json_raw, ",")
    /\ Strip(SubSeq(Text, 1, FirstStart - 1)) # <<>>
    /\ extracted.markdown = Strip(SubSeq(Text, 1, FirstStart - 1))

\* the candidate of the inline search: first "{" to last "}"
HasCandidate ==
    /\ IsStr /\ ~Contains(Text, JSON_START)
    /\ \E i, j \in 1..Len(Text) : i < j /\ Text[i] = "{" /\ Text[j] = "}"
CandFrom == SetMin({i \in 1..Len(Text) : Text[i] = "{"})
CandTo == SetMax({i \in 1..Len(Text) : Text[i] = "}"})
Candidate == SubSeq(Text, CandFrom, CandTo)
WithoutCandidate == SubSeq(Text, 1, CandFrom - 1) \o SubSeq(Text, CandTo + 1, Len(Text))

\* C7 as claimed: without a start sentinel the text from the first "{" to
\* the last "}" is parsed; on success the JSON part is the parsed value and
\* the Markdown part the input without that text, on failure the Markdown
\* part is the whole input and there is no JSON data.
C7_AsClaimed ==
    Extracted /\ HasCandidate =>
        IF JsonLoads(Candidate).ok
        THEN /\ extracted.json = JsonLoads(Candidate).val
             /\ extracted.markdown \in {WithoutCandidate, Strip(WithoutCandidate)}
        ELSE /\ NoData(extracted.json)
             /\ extracted.markdown \in {Text, Strip(Text)}

\* C7 amended: on success the JSON part is the parsed value, or the default
\* structure when that value is empty (falsy), and the Markdown part is the
\* input without the candidate, trimmed, or the "(No content)" placeholder
\* when nothing is left; on failure the Markdown part is the trimmed input
\* and the JSON part the default structure.
C7_InlineJson ==
    Extracted /\ HasCandidate =>
        IF JsonLoads(Candidate).ok
        THEN /\ extracted.json = OrDefault(JsonLoads(Candidate).val)
             /\ extracted.markdown = OrNoContent(Strip(WithoutCandidate))
        ELSE /\ extracted.json = DEFAULT_JSON
             /\ extracted.markdown = Strip(Text)

C7_Witness ==
    /\ Extracted /\ HasCandidate
    /\ JsonLoads(Candidate).ok
    /\ \E i \in CandFrom + 1..CandTo - 1 : Text[i] = "}"
    /\ Strip(WithoutCandidate) # <<>>
    /\ extracted.json = JsonLoads(Candidate).val

----------------------------------------------------------------------------
(* Properties of the Section Splitter (checked under SpecSplit)            *)

Splitted == pc = "split" /\ md.kind = "str"

\* a text without its whitespace
Squeeze(s) == SelectSeq(s, LAMBDA c : ~IsWs(c))

\* the document with its line endings normalised, and the same trimmed
RawDocument == ReplaceCRLF(md.text)
Document == Strip(RawDocument)

\* position i of s begins a run of three or more "#" that whitespace follows
MarkerAt(s, i) ==
    LET after == {j \in i..Len(s) : s[j] # "#"}
    IN  /\ after # {}
        /\ SetMin(after) - i >= 3
        /\ IsWs(s[SetMin(after)])

\* the header lines of s: they follow a newline and begin with a marker
HeaderLines(s) == {i \in 2..Len(s) : s[i - 1] = NL /\ MarkerAt(s, i)}

\* the line of s that begins at i
LineAt(s, i) ==
    LET nl == FindFrom(s, NL, i)
    IN  SubSeq(s, i, IF nl = 0 THEN Len(s) ELSE nl - 1)

\* the chunks of the document: the first begins at 1, the others at the
\* header lines; each ends before the newline of the next.  Chunks maps
\* each start to the key (trimmed first line) and body (trimmed rest).
ChunkOf(doc, starts, i) ==
    LET later == {j \in starts : j > i}
        c == Strip(SubSeq(doc, i, IF later = {} THEN Len(doc) ELSE SetMin(later) - 2))
        nl == FindFrom(c, NL, 1)
    IN  [key |-> Strip(LineAt(c, 1)),
         body |-> IF nl = 0 THEN <<>> ELSE Strip(SubSeq(c, nl + 1, Len(c)))]
Chunks ==
    LET doc == Document
        starts == {1} \cup HeaderLines(doc)
    IN  [i \in starts |-> ChunkOf(doc, starts, i)]

Keys == {sections[n].header : n \in 1..Len(sections)}
BodyOf(h) == (CHOOSE e \in {sections[n] : n \in 1..Len(sections)} : e.header = h).body

RECURSIVE ConcatEntries(_)
ConcatEntries(d) ==
    IF d = <<>> THEN <<>>
    ELSE d[1].header \o d[1].body \o ConcatEntries(Tail(d))

NoKeyRecurs(ch) == \A i, j \in DOMAIN ch : i # j => ch[i].key # ch[j].key

EdgeCases ==
    /\ md.text = <<>> => sections = <<>>
    /\ md.text # <<>> /\ HeaderLines(Document) = {} => Len(sections) = 1

\* C8 as claimed: for every input no section's text is dropped: the key and
\* the body of every chunk are a pair of the map (so that the pairs,
\* concatenated, hold all the content of the input); an input without
\* header markers gives one entry, the empty input an empty map.
C8_AsClaimed ==
    Splitted =>
        /\ md.text # <<>> =>
              \A i \in DOMAIN Chunks :
                  \E n \in 1..Len(sections) :
                      /\ sections[n].header = Chunks[i].key
                      /\ Chunks[i].body # <<>> => sections[n].body = Chunks[i].body
        /\ EdgeCases

\* C8 amended: the concatenation holds all the content of the input
\* whenever no two chunks have the same header line (when one recurs only
\* the body of its last occurrence is kept); an input without header
\* markers gives one entry, the empty input an empty map.
C8_LosslessNoRecurrence ==
    Splitted =>
        /\ NoKeyRecurs(Chunks) => Squeeze(ConcatEntries(sections)) = Squeeze(md.text)
        /\ EdgeCases

C8_Witness ==
    /\ Splitted /\ NoKeyRecurs(Chunks)
    /\ Cardinality(DOMAIN Chunks) >= 2
    /\ \E n \in 1..Len(sections) : Contains(sections[n].body, NL)
    /\ Squeeze(ConcatEntries(sections)) = Squeeze(md.text)

\* C9: when a header line occurs more than once the map holds, once, the
\* body of its last occurrence.
C9_LastWriteWins ==
    Splitted /\ md.text # <<>> =>
        LET ch == Chunks
        IN  \A i \in DOMAIN ch :
               LET last == SetMax({j \in DOMAIN ch : ch[j].key = ch[i].key})
               IN  /\ Cardinality({n \in 1..Len(sections) :
                                      sections[n].header = ch[i].key}) = 1
                   /\ BodyOf(ch[i].key) = ch[last].body

C9_Witness ==
    /\ Splitted
    /\ LET ch == Chunks
       IN  \E i, j \in DOMAIN ch :
              /\ i < j /\ ch[i].key = ch[j].key
              /\ ch[i].body # <<>> /\ ch[j].body # <<>>
              /\ ch[i].body # ch[j].body
              /\ BodyOf(ch[i].key) = ch[j].body
              /\ \A n \in 1..Len(sections) : sections[n].body # ch[i].body

\* C10 as claimed: every line of the input that follows a newline and
\* begins with three or more "#" and whitespace starts a section (its
\* trimmed text is a key), and nothing else does.
C10_AsClaimed ==
    Splitted =>
        /\ \A i \in HeaderLines(RawDocument) : Strip(LineAt(RawDocument, i)) \in Keys
        /\ Len(sections) <= 1 + Cardinality(HeaderLines(RawDocument))

\* C10 amended: in the document with its line endings normalised and its
\* ends trimmed, a section starts exactly at the lines that follow a newline
\* and begin with three or more "#" and whitespace (a closing line that is
\* only a "#" run has lost its whitespace and starts none); the keys are the
\* trimmed first lines of the chunks, in order of first occurrence, and each
\* body is the trimmed rest of a chunk with that key.
C10_SectionStarts ==
    Splitted /\ md.text # <<>> =>
        LET ch == Chunks
            first(h) == SetMin({i \in DOMAIN ch : ch[i].key = h})
        IN  /\ Keys = {ch[i].key : i \in DOMAIN ch}
            /\ \A n \in 1..Len(sections) :
                  \E i \in DOMAIN ch : /\ sections[n].header = ch[i].key
                                       /\ sections[n].body = ch[i].body
            /\ \A n, m \in 1..Len(sections) :
                  n < m => first(sections[n].header) < first(sections[m].header)

C10_Witness ==
    /\ Splitted
    /\ Cardinality(DOMAIN Chunks) >= 3
    /\ \E j \in 2..Len(Document) :
          Document[j - 1] = NL /\ Document[j] = "#" /\ j \notin DOMAIN Chunks
    /\ \E j \in 2..Len(Document) :
          Document[j - 1] = " " /\ MarkerAt(Document, j)
    /\ Len(sections) = 3

----------------------------------------------------------------------------
(* Properties of the Report Assembler (checked under SpecAssemble)         *)

Assembled == pc = "assembled"
Returned == Assembled /\ ~report.raised

\* the call was given a parsed JSON object and Markdown with sections
BothSources ==
    /\ Truthy(ai_result.parsed_json) /\ ai_result.parsed_json.t = "dict"
    /\ MdTruthy(ai_result.markdown)
    /\ ai_result.sections # <<>>

StructuredFields ==
    {"checklist", "platform_matrix", "testing_tools", "severity_table",
     "acceptance_criteria"}

\* the keyword of a structured field
KeywordOf(field) ==
    CASE field = "checklist" -> KW_CHECKLIST
      [] field = "platform_matrix" -> KW_PLATFORM_MATRIX
      [] field = "testing_tools" -> KW_TESTING_TOOLS
      [] field = "severity_table" -> KW_SEVERITY
      [] field = "acceptance_criteria" -> KW_ACCEPTANCE

\* the Markdown parse of a section body for a structured field
MarkdownParse(field, body) ==
    CASE field = "checklist" -> _parse_checklist_from_section(body)
      [] field = "platform_matrix" -> _parse_platform_matrix(body)
      [] field = "testing_tools" -> ToolsOfSection(body)
      [] field = "severity_table" -> _parse_severity_table(body)
      [] field = "acceptance_criteria" -> CriteriaOfSection(body)

\* the field a header is routed to: that of the first keyword it contains,
\* in the order Checklist, Accessibility Report, Platform Matrix, Testing
\* Tools, Severity, Acceptance
RoutedTo(hdr) ==
    CASE ContainsSeq(hdr, KW_CHECKLIST) -> "checklist"
      [] ContainsSeq(hdr, KW_REPORT) -> "report_sections"
      [] ContainsSeq(hdr, KW_PLATFORM_MATRIX) -> "platform_matrix"
      [] ContainsSeq(hdr, KW_TESTING_TOOLS) -> "testing_tools"
      [] ContainsSeq(hdr, KW_SEVERITY) -> "severity_table"
      [] ContainsSeq(hdr, KW_ACCEPTANCE) -> "acceptance_criteria"
      [] OTHER -> "none"

SectionsWithKeyword(field) ==
    {n \in 1..Len(ai_result.sections) :
        ContainsSeq(ai_result.sections[n].header, KeywordOf(field))}
SectionsRoutedTo(field) ==
    {n \in 1..Len(ai_result.sections) :
        RoutedTo(ai_result.sections[n].header) = field}

\* what the JSON pass alone makes of the parsed JSON
JsonDerived(field) == JsonPass(ai_result.parsed_json)[field]

\* C1 as claimed: given a parsed JSON object and Markdown sections, every
\* structured field that has a section whose header contains its keyword
\* equals the Markdown parse of such a section.
C1_AsClaimed ==
    Returned /\ BothSources =>
        \A field \in StructuredFields :
            SectionsWithKeyword(field) # {} =>
                \E n \in SectionsWithKeyword(field) :
                    report[field] = MarkdownParse(field, ai_result.sections[n].body)

\* C1 amended: whenever a report is returned for a non-empty markdown,
\* every structured field to which a section is routed (its header
\* contains the field's keyword and none of the keywords tested before it)
\* equals the Markdown parse of the last such section, whatever the JSON
\* pass had produced; a field named only in a header that is routed
\* elsewhere keeps its JSON-derived value.
C1_MarkdownOverwrites ==
    Returned /\ MdTruthy(ai_result.markdown) =>
        \A field \in StructuredFields :
            IF SectionsRoutedTo(field) # {}
            THEN report[field] =
                    MarkdownParse(field,
                        ai_result.sections[SetMax(SectionsRoutedTo(field))].body)
            ELSE report[field] = JsonDerived(field)

\* the example of the claim: JSON {"checklist": ["A"]} and a Checklist
\* section "- [ ] B" give the checklist [{text: "B", done: false}]
C1_Witness ==
    /\ Returned /\ BothSources
    /\ JsonDerived("checklist") = <<[text |-> <<"A">>, done |-> FALSE]>>
    /\ \E n \in SectionsRoutedTo("checklist") :
          ai_result.sections[n].body = <<"-", " ", "[", " ", "]", " ", "B">>
    /\ report.checklist = <<[text |-> <<"B">>, done |-> FALSE]>>

----------------------------------------------------------------------------
(* Properties of the section parsers (checked under SpecParse)             *)

ParsedBy(name) == pc = "parsed" /\ parsed.parser = name
BodyIsStr == section_body.kind = "str"
BodyText == section_body.text

\* the index after the checkbox or the numbered marker a line starts with,
\* 0 when it starts with neither
MarkerEnd(line) ==
    LET nondigit == {j \in 1..Len(line) : line[j] \notin Digits}
        d == IF nondigit = {} THEN Len(line) + 1 ELSE SetMin(nondigit)
    IN  IF /\ Len(line) >= 5
           /\ SubSeq(line, 1, 3) = <<"-", " ", "[">>
           /\ line[4] \in {" ", "x", "X"}
           /\ line[5] = "]"
        THEN 6
        ELSE IF d > 1 /\ d <= Len(line) /\ line[d] = "." THEN d + 1
        ELSE 0

HasMarker(line) == MarkerEnd(line) # 0
Remainder(line) == Strip(SubSeq(line, MarkerEnd(line), Len(line)))
Ticked(line) == line[1] = "-" /\ line[4] \in {"x", "X"}

\* one item per line that starts with a marker, in line order
ItemsPerLine(text) ==
    LET marked == SelectSeq(SplitLines(text), HasMarker)
    IN  [i \in 1..Len(marked) |->
            [text |-> Remainder(marked[i]), done |-> Ticked(marked[i])]]

HasText(item) == item.text # <<>>

\* C11 as claimed: the checklist parser returns one item per line that
\* starts with a checkbox bullet or a numbered marker, in line order, its
\* text the trimmed remainder of that line and done true exactly for a
\* ticked checkbox (a marker line with nothing after the marker may give an
\* item with empty text or none).
C11_AsClaimed ==
    (ParsedBy("checklist") /\ BodyIsStr) =>
        LET items == ItemsPerLine(BodyText)
        IN  \/ parsed.value = items
            \/ parsed.value = SelectSeq(items, HasText)

\* a body without any pattern a parser looks for: absent, empty, or made of
\* blank lines and plain words
NoPattern ==
    \/ ~BodyIsStr
    \/ \A i \in 1..Len(SplitLines(BodyText)) : SplitLines(BodyText)[i] \in {<<>>, <<"x">>}

\* the developer report section with every optional field unset
UnsetSection ==
    [title |-> DEVELOPER_REPORT_TITLE, intent |-> None, expected_behavior |-> None,
     implementation_details |-> None, good_example |-> None, bad_example |-> None,
     wcag_references |-> None, testing_steps |-> <<>>]

TableLines == NonBlankLines(BodyText)
IsTable == BodyIsStr /\ TableLines # <<>> /\ Contains(TableLines[1], "|")
DataRows == SelectSeq(Tail(TableLines), LAMBDA line : ~SkippedRow(line))

\* the cells between the pipes of a table line, trimmed; the border pipes
\* of the line make no cell
PipeCells(line) ==
    LET cs == StripAll(SplitOn(line, "|"))
        a == IF cs[1] = <<>> THEN 2 ELSE 1
        b == IF cs[Len(cs)] = <<>> THEN Len(cs) - 1 ELSE Len(cs)
    IN  SubSeq(cs, a, b)

HeaderNames ==
    LET cs == PipeCells(TableLines[1])
    IN  [i \in 1..Len(cs) |-> Lower(cs[i])]

\* the cell of a row under the header column called name, "" without one
Named(names, cells, name) ==
    LET idx == {i \in 1..Len(names) : names[i] = name}
    IN  IF idx = {} \/ SetMin(idx) > Len(cells) THEN <<>> ELSE cells[SetMin(idx)]

RecordByName(names, cells) ==
    [issue_type |-> OrStr(Named(names, cells, <<"issue", " ", "type">>),
                          Named(names, cells, <<"issue">>)),
     user_impact |-> Named(names, cells, <<"user", " ", "impact">>),
     severity |-> Named(names, cells, <<"severity">>),
     recommended_priority |->
         OrStr(Named(names, cells, <<"recommended", " ", "priority">>),
               Named(names, cells, <<"priority">>))]

\* a table line written from its cells
RenderRow(cells) ==
    <<"|">> \o Flatten([i \in 1..Len(cells) |-> <<" ">> \o cells[i] \o <<" ", "|">>])

ColumnOrders(n) == {f \in [1..n -> 1..n] : \A i, j \in 1..n : f[i] = f[j] => i = j}

\* the table with its columns, header and data alike, in the order f
Permuted(f) ==
    LET row(line) == RenderRow([i \in 1..Len(f) |-> PipeCells(line)[f[i]]])
    IN  JoinLines(<<row(TableLines[1])>>
                    \o [i \in 1..Len(DataRows) |-> row(DataRows[i])])

FullWidth == \A i \in 1..Len(DataRows) : Len(PipeCells(DataRows[i])) = Len(HeaderNames)

\* C13 as claimed: the severity table parser maps each data row to its
\* record by the names of the header columns (case-insensitive, 'Issue' for
\* 'Issue Type' and 'Priority' for 'Recommended Priority'), not by position:
\* every field holds the cell under the column of its name, and the table
\* with its columns permuted yields the same records.
C13_AsClaimed ==
    (ParsedBy("severity_table") /\ IsTable) =>
        /\ parsed.value =
              [i \in 1..Len(DataRows) |-> RecordByName(HeaderNames, PipeCells(DataRows[i]))]
        /\ FullWidth =>
              \A f \in ColumnOrders(Len(HeaderNames)) :
                  _parse_severity_table(Permuted(f)) = parsed.value

ParsedTable == pc = "parsed" /\ parsed.parser \in {"platform_matrix", "severity_table"}

\* a data row with fewer cells between its pipes than the header row
ShortRow(line) == Len(PipeCells(line)) < Len(PipeCells(TableLines[1]))
Malformed == ~IsTable \/ \E i \in 1..Len(DataRows) : ShortRow(DataRows[i])

\* C14 as claimed: from a malformed table, one whose first non-blank line
\* holds no '|' or one with a data row of fewer columns than expected, the
\* platform matrix and the severity parser return an empty result and raise
\* no error.
C14_AsClaimed ==
    (ParsedTable /\ BodyIsStr /\ Malformed) => (~parsed.raised /\ parsed.value = <<>>)

\* the cells of a table line that are not empty
NonEmptyCells(line) == SelectSeq(PipeCells(line), LAMBDA c : c # <<>>)
CellOrNone(cells, k) == IF k <= Len(cells) THEN cells[k] ELSE None

\* C14: the platform matrix and the severity parser raise no error on any
\* text.  A body whose first non-blank line holds no '|' yields an empty
\* result.  A data row with fewer cells than expected is kept: the platform
\* matrix parser returns it with the missing fields None (it skips only a
\* row without any non-empty cell), the severity parser with "" under every
\* header column the row does not reach.
C14_MalformedTable ==
    (ParsedTable /\ BodyIsStr) =>
        /\ ~parsed.raised
        /\ ~IsTable => parsed.value = <<>>
        /\ (IsTable /\ ParsedBy("platform_matrix")) =>
              LET rows == SelectSeq(DataRows, LAMBDA l : NonEmptyCells(l) # <<>>)
              IN  /\ Len(parsed.value) = Len(rows)
                  /\ \A i \in 1..Len(rows) :
                        LET c == NonEmptyCells(rows[i])
                        IN  parsed.value[i] =
                                [attribute |-> c[1], web |-> CellOrNone(c, 2),
                                 ios |-> CellOrNone(c, 3), android |-> CellOrNone(c, 4)]
        /\ (IsTable /\ ParsedBy("severity_table")) =>
              LET h == NonEmptyCells(TableLines[1])
                  names == [i \in 1..Len(h) |-> Lower(h[i])]
              IN  /\ Len(parsed.value) = Len(DataRows)
                  /\ \A i \in 1..Len(DataRows) :
                        parsed.value[i] = RecordByName(names, NonEmptyCells(DataRows[i]))

\* a table with a short data row went through the platform matrix parser
\* and came back as a row with unset fields
C14_Witness ==
    /\ ParsedBy("platform_matrix")
    /\ IsTable
    /\ \E i \in 1..Len(DataRows) : ShortRow(DataRows[i])
    /\ ~parsed.raised
    /\ \E i \in 1..Len(parsed.value) : parsed.value[i].web = None

----------------------------------------------------------------------------
(* Further properties of the Report Assembler (checked under SpecAssemble) *)

Collections ==
    {"checklist", "report_sections", "platform_matrix", "testing_tools",
     "severity_table", "acceptance_criteria"}

\* no markdown, no sections and no JSON object to read
EmptyInput ==
    /\ ~MdTruthy(ai_result.markdown)
    /\ ai_result.sections = <<>>
    /\ ~(Truthy(ai_result.parsed_json) /\ ai_result.parsed_json.t = "dict")

\* C15 as claimed: output assembly always succeeds: for every markdown,
\* sections and parsed JSON, list elements that are no strings or
\* well-formed objects included, build_deep_report returns a report and
\* does not raise; from empty or unparseable input all six collections are
\* empty and raw_markdown is the markdown that was supplied.
C15_AsClaimed ==
    Assembled =>
        /\ ~report.raised
        /\ EmptyInput =>
              /\ \A c \in Collections : report[c] = <<>>
              /\ report.raw_markdown = ai_result.markdown

Reassembled == pc = "reassembled"

\* the sections of the first pass are those of its markdown, as
\* analyze_with_ai builds every ai_result
SectionsOfMarkdown ==
    ai_result.sections = _extract_markdown_sections(ai_result.markdown)

Items(seq) == {seq[i] : i \in 1..Len(seq)}

C17_AsClaimed ==
    (Returned /\ BothSources) =>
        \A field \in StructuredFields :
            IF SectionsWithKeyword(field) = {}
            THEN report[field] = JsonDerived(field)
            ELSE \E n \in SectionsWithKeyword(field) :
                    report[field] = MarkdownParse(field, ai_result.sections[n].body)

\* the fields that take their value from Markdown, and those that keep it
\* from JSON
FromMarkdown == {field \in StructuredFields : SectionsRoutedTo(field) # {}}
FromJson == StructuredFields \ FromMarkdown

\* C17: Markdown wins per field: with a parsed JSON object and Markdown both
\* present, the fields to which no section is routed, among them every
\* field whose keyword no header contains, keep the value of the JSON pass
\* unchanged, and only the fields to which a section is routed are
\* overwritten, by the Markdown parse of the last section routed to them.
C17_PerField ==
    (Returned /\ BothSources) =>
        /\ \A field \in StructuredFields :
              SectionsWithKeyword(field) = {} => field \in FromJson
        /\ \A field \in FromJson : report[field] = JsonDerived(field)
        /\ \A field \in FromMarkdown :
              LET last == SetMax(SectionsRoutedTo(field))
              IN  report[field] = MarkdownParse(field, ai_result.sections[last].body)

\* one report with a field kept from JSON, whose keyword no header
\* contains, next to a field overwritten by Markdown
C17_Witness ==
    /\ Returned /\ BothSources
    /\ \E field \in StructuredFields :
          /\ SectionsWithKeyword(field) = {}
          /\ JsonDerived(field) # <<>>
          /\ report[field] = JsonDerived(field)
    /\ \E field \in FromMarkdown :
          /\ JsonDerived(field) # <<>>
          /\ report[field] # JsonDerived(field)

----------------------------------------------------------------------------
(* Properties of the report store (checked under SpecStore)                *)

Stored(id) == find_one(reports_collection, id)
StoredNext(id) == find_one(reports_collection', id)

\* C18 as stated: every stored document equals, in every field, the
\* payload of one single write: that of the last write sent under its
\* ticket id (the time of a write is in its updated_at, so no earlier
\* write has the same payload)
C18_AsClaimed ==
    \A d \in reports_collection :
        /\ d["_id"] \in DOMAIN db_write
        /\ d = Payload(db_write[d["_id"]])

\* C18: a step changes the document stored under a ticket id in one of
\* three ways only: /v5/analyze leaves the full payload of its write, with
\* the created_at that was stored; PUT /v5/reports/{id} writes the allowed
\* fields of its body, updated_at and created_at into the stored document
\* and leaves its other fields as earlier writes stored them; DELETE
\* removes the document
C18_WritePaths ==
    [][\A id \in TicketIds :
          LET before == Stored(id)
              after == StoredNext(id)
          IN  after # before =>
                /\ response'.ticket_id = id
                /\ response'.status_code = 200
                /\ \/ /\ response'.op = "delete"
                      /\ after = NoDoc
                   \/ /\ response'.op = "analyze"
                      /\ after = Payload(db_write'[id])
                      /\ before # NoDoc => after.created_at = before.created_at
                   \/ /\ response'.op = "update"
                      /\ before # NoDoc
                      /\ after = Merge(before, db_write'[id].set)
                      /\ DOMAIN db_write'[id].set \subseteq
                            ALLOWED_UPDATE_FIELDS \cup {"updated_at", "created_at"}
                      /\ db_write'[id].set.created_at = before.created_at
      ]_vars

\* a PUT has succeeded and the stored document holds fields that its write
\* did not carry, among them the markdown of the analysis before it
C18_Witness ==
    /\ response # NoResponse
    /\ response.op = "update"
    /\ response.status_code = 200
    /\ LET d == Stored(response.ticket_id)
           write == db_write[response.ticket_id]
       IN  /\ d # NoDoc
           /\ {"ticket_id", "ai_model", "markdown_report"} \subseteq
                 DOMAIN d \ DOMAIN write.set
           /\ d # Payload(write)
           /\ d.updated_at = write.set.updated_at

\* C19: the updated flag in the response of /v5/analyze for a ticket id
\* is true exactly when a report with that ticket id was in the store
\* immediately before the call, and false when the call created the report
C19_UpdatedFlag ==
    [][response'.op = "analyze" =>
          response'.updated = (Stored(response'.ticket_id) # NoDoc)]_vars

\* /v5/analyze has answered updated = false for a ticket id that was
\* written before and is the only one ever written: the report was deleted
\* in between and this call created it again
C19_Witness ==
    /\ response # NoResponse
    /\ response.op = "analyze"
    /\ ~response.updated
    /\ DOMAIN db_write = {response.ticket_id}
    /\ utcnow >= 2
    /\ Stored(response.ticket_id) # NoDoc

\* the time a stored created_at or updated_at stands for: save_report
\* stores a datetime, update_report_endpoint its isoformat() string
TimeOf(stamp) == stamp.t

\* C20: as long as no delete intervenes, the writes of save_report and
\* update_report on a ticket id leave exactly one document for it, whose
\* created_at is the time of the first save and whose updated_at is the
\* time of the latest write: a step never leaves two documents for one id,
\* the step that creates the document stamps created_at with its own
\* time, every later step leaves created_at as it was, and every step that
\* writes the document stamps updated_at with its own time
C20_Timestamps ==
    [][\A id \in TicketIds :
          LET before == Stored(id)
              after == StoredNext(id)
              wrote == /\ response'.ticket_id = id
                       /\ response'.status_code = 200
                       /\ response'.op \in {"analyze", "update"}
          IN  /\ Cardinality({d \in reports_collection' : d["_id"] = id}) <= 1
              /\ wrote => after # NoDoc
              /\ (wrote /\ before = NoDoc) =>
                    after.created_at = Datetime(utcnow')
              /\ (before # NoDoc /\ after # NoDoc) =>
                    after.created_at = before.created_at
              /\ wrote => /\ utcnow' = utcnow + 1
                          /\ TimeOf(after.updated_at) = utcnow'
              /\ (~wrote /\ after # NoDoc) => after = before
      ]_vars

\* three writes, all on one ticket id, the first a save at time 1 and the
\* last an update: the one document still carries created_at = 1, and its
\* updated_at is the time of the last write
C20_Witness ==
    /\ utcnow >= 3
    /\ response # NoResponse
    /\ response.op = "update"
    /\ response.status_code = 200
    /\ DOMAIN db_write = {response.ticket_id}
    /\ Cardinality(reports_collection) = 1
    /\ LET d == Stored(response.ticket_id)
       IN  /\ d # NoDoc
           /\ d.created_at = Datetime(1)
           /\ TimeOf(d.updated_at) = utcnow

----------------------------------------------------------------------------
(* Further properties of the Section Splitter (checked under SpecSplit)    *)

\* the number of "#" that begin the line of s at i
Depth(s, i) ==
    LET after == {j \in i..Len(s) : s[j] # "#"}
    IN  IF after = {} THEN Len(s) - i + 1 ELSE SetMin(after) - i

\* the lines of s that are Markdown headers of any weight: one or more "#"
\* and whitespace at the start of a line
AnyHeaderLines(s) ==
    {i \in 1..Len(s) :
        /\ i = 1 \/ s[i - 1] = NL
        /\ Depth(s, i) >= 1
        /\ i + Depth(s, i) <= Len(s)
        /\ IsWs(s[i + Depth(s, i)])}

\* the trimmed text of s after the line at i and before the line at stop
\* (the end of s when stop = 0)
TextBetween(s, i, stop) ==
    LET nl == FindFrom(s, NL, i)
        last == IF stop = 0 THEN Len(s) ELSE stop - 2
    IN  IF nl = 0 \/ nl > last THEN <<>> ELSE Strip(SubSeq(s, nl + 1, last))

\* the section headers of the document: its first line when it is a marker
\* line, and the marker lines after it
SectionHeaders(doc) ==
    {i \in {1} \cup HeaderLines(doc) : MarkerAt(doc, i)}

\* C23 as stated: the body stored for a header is everything from its line
\* up to the next header of equal or higher weight (as many "#" or fewer);
\* a deeper sub-header does not end the section.  Compared on documents in
\* which no header line recurs.
C23_AsClaimed ==
    (Splitted /\ md.text # <<>> /\ NoKeyRecurs(Chunks)) =>
        LET doc == Document
        IN  \A i \in SectionHeaders(doc) :
               LET enders == {j \in AnyHeaderLines(doc) :
                                 j > i /\ Depth(doc, j) <= Depth(doc, i)}
                   stop == IF enders = {} THEN 0 ELSE SetMin(enders)
               IN  BodyOf(Strip(LineAt(doc, i))) = TextBetween(doc, i, stop)

\* C23: the body stored for a header is everything from its line up to the
\* next line that begins with three or more "#" and whitespace, whatever
\* the weight of either: a deeper sub-header of three or more "#" ends the
\* section and has an entry of its own, and a header of one or two "#"
\* ends none and stays in the body.  Compared on documents in which no
\* header line recurs.
C23_FlatSplit ==
    (Splitted /\ md.text # <<>> /\ NoKeyRecurs(Chunks)) =>
        LET doc == Document
        IN  \A i \in SectionHeaders(doc) :
               LET enders == {j \in HeaderLines(doc) : j > i}
                   stop == IF enders = {} THEN 0 ELSE SetMin(enders)
               IN  /\ Strip(LineAt(doc, i)) \in Keys
                   /\ BodyOf(Strip(LineAt(doc, i))) = TextBetween(doc, i, stop)

\* a section of three "#" is followed by text and by a sub-header of four:
\* its body is the text alone and the sub-header has its own entry
C23_Witness ==
    /\ Splitted /\ md.text # <<>> /\ NoKeyRecurs(Chunks)
    /\ LET doc == Document
       IN  \E i, j \in SectionHeaders(doc) :
              /\ i < j
              /\ Depth(doc, i) = 3 /\ Depth(doc, j) = 4
              /\ {k \in HeaderLines(doc) : i < k /\ k < j} = {}
              /\ BodyOf(Strip(LineAt(doc, i))) = <<"x">>
              /\ Strip(LineAt(doc, j)) \in Keys

----------------------------------------------------------------------------
(* Further properties of the section parsers (checked under SpecParse)     *)

\* the characters a list marker is written with
MarkerChars == {"-", BULLET, "*", "."} \cup Digits

\* entry is the trimmed line without its leading marker: what is left after
\* a first run of marker characters, trimmed
WithoutMarker(line, entry) ==
    LET t == Strip(line)
    IN  \E k \in 1..Len(t) :
           /\ \A j \in 1..k : t[j] \in MarkerChars
           /\ entry = Strip(SubSeq(t, k + 1, Len(t)))

\* C24 as stated: the simple list parser returns, in order, one entry for
\* every line whose trimmed form begins with "-", the bullet, "*" or "1.",
\* and each entry is the text of its line with the leading marker stripped
C24_AsClaimed ==
    (ParsedBy("simple_list") /\ BodyIsStr) =>
        LET marked == SelectSeq(SplitLines(BodyText), HasListMarker)
        IN  /\ Len(parsed.value) = Len(marked)
            /\ \A i \in 1..Len(marked) : WithoutMarker(marked[i], parsed.value[i])

\* a field holds the cell at place k of a row: the text of the cell, unset
\* or empty when the cell is empty, unset when the row has no such cell
HoldsCell(field, cells, k) ==
    IF k > Len(cells) THEN field = None
    ELSE field = cells[k] \/ (cells[k] = <<>> /\ field = None)

\* C25 as stated: the platform matrix parser skips the lines containing
\* "---" and maps the cells of every other data row by position, columns
\* 0..3 to attribute, web, ios and android; only the empty cells before the
\* first and after the last "|" are discarded, so an empty cell inside a
\* row keeps its place (a row without any text may be left out)
C25_AsClaimed ==
    (ParsedBy("platform_matrix") /\ IsTable) =>
        LET rows == SelectSeq(DataRows, LAMBDA l : NonEmptyCells(l) # <<>>)
        IN  /\ ~parsed.raised
            /\ Len(parsed.value) = Len(rows)
            /\ \A i \in 1..Len(rows) :
                  LET c == PipeCells(rows[i])
                      item == parsed.value[i]
                  IN  /\ HoldsCell(item.attribute, c, 1)
                      /\ HoldsCell(item.web, c, 2)
                      /\ HoldsCell(item.ios, c, 3)
                      /\ HoldsCell(item.android, c, 4)

\* the labels of the code blocks and the slots they fill
SLOT_LABELS == <<[label |-> "Web", slot |-> "web"], [label |-> "iOS", slot |-> "ios"],
                 [label |-> "Android", slot |-> "android"]>>

\* a fenced block opens at q: the fence, letters, a newline, at least one
\* character and a closing fence
BlockOpensAt(s, q) ==
    /\ q <= Len(s) /\ s[q] = FENCE
    /\ \E r \in (q + 1)..Len(s) :
          /\ s[r] = NL
          /\ \A j \in (q + 1)..(r - 1) : s[j] \in Letters
          /\ \E c \in (r + 2)..Len(s) : s[c] = FENCE

\* s holds the label, a colon, and after nothing but whitespace a fenced
\* block
HasLabeledBlock(s, label) ==
    \E p \in 1..Len(s) :
        /\ s[p] = label /\ p < Len(s) /\ s[p + 1] = ":"
        /\ \E q \in (p + 2)..Len(s) :
              /\ \A j \in (p + 2)..(q - 1) : IsWs(s[j])
              /\ BlockOpensAt(s, q)

\* the slots of an implementation_details that is set
SlotsOf(value) ==
    {value.implementation_details[i].key : i \in 1..Len(value.implementation_details)}

\* C26: on every section body the developer report section parser returns
\* without raising; implementation_details holds exactly the slots of the
\* labels Web, iOS and Android that stand before a fenced block, and is
\* unset without any; good_example and bad_example are the first and the
\* second fenced block when no labeled block was found and are unset
\* otherwise; intent and expected_behavior are unset whenever the body does
\* not hold their bold label
C26_DeveloperReport ==
    (ParsedBy("developer_report") /\ BodyIsStr) =>
        LET s == BodyText
            labeled == {SLOT_LABELS[i].slot : i \in
                          {k \in 1..Len(SLOT_LABELS) : HasLabeledBlock(s, SLOT_LABELS[k].label)}}
            blocks == CodeBlocksFrom(s, 1)
            v == parsed.value
        IN  /\ ~parsed.raised
            /\ IF labeled = {} THEN v.implementation_details = None
               ELSE SlotsOf(v) = labeled
            /\ labeled # {} => (v.good_example = None /\ v.bad_example = None)
            /\ labeled = {} =>
                  /\ v.good_example = IF Len(blocks) >= 1 THEN Strip(blocks[1]) ELSE None
                  /\ v.bad_example = IF Len(blocks) >= 2 THEN Strip(blocks[2]) ELSE None
            /\ ~ContainsSeq(s, <<"*", "*", "Intent", ":", "*", "*">>) => v.intent = None
            /\ ~ContainsSeq(s, <<"*", "*", "Expected">>) => v.expected_behavior = None

\* a body with a block labeled Web: the slot web is filled, and the block,
\* though fenced, is no example
C26_Witness ==
    /\ ParsedBy("developer_report") /\ BodyIsStr
    /\ HasLabeledBlock(BodyText, "Web")
    /\ CodeBlocksFrom(BodyText, 1) # <<>>
    /\ SlotsOf(parsed.value) = {"web"}
    /\ parsed.value.good_example = None
    /\ parsed.value.intent = None

----------------------------------------------------------------------------
(* Further properties of the Report Assembler (checked under SpecAssemble) *)

\* the fields a section's header names by keyword
FieldsNamedBy(hdr) ==
    {field \in StructuredFields : ContainsSeq(hdr, KeywordOf(field))}
        \cup (IF ContainsSeq(hdr, KW_REPORT) THEN {"report_sections"} ELSE {})

\* the fields in the order the dispatch tests their keywords
DispatchOrder ==
    <<"checklist", "report_sections", "platform_matrix", "testing_tools",
      "severity_table", "acceptance_criteria">>

\* the first field, in dispatch order, that the header names
FirstNamed(hdr) ==
    LET named == FieldsNamedBy(hdr)
        hits == {k \in 1..Len(DispatchOrder) : DispatchOrder[k] \in named}
    IN  IF hits = {} THEN "none" ELSE DispatchOrder[SetMin(hits)]

\* the members of a set of positions in ascending order
RECURSIVE Ascending(_)
Ascending(S) ==
    IF S = {} THEN <<>> ELSE <<SetMin(S)>> \o Ascending(S \ {SetMin(S)})

\* C29: with Markdown given, every section goes to the parser of the first
\* keyword, in the order Checklist, Accessibility Report, Platform Matrix,
\* Testing Tools, Severity, Acceptance, that its header contains and to no
\* other; an overwriting field holds the parse of the last section that
\* went to it, and report_sections holds one entry per section that went
\* to the developer-report parser, in section-map order.
C29_Dispatch ==
    Returned /\ MdTruthy(ai_result.markdown) =>
        LET secs == ai_result.sections
            route == [n \in 1..Len(secs) |-> FirstNamed(secs[n].header)]
            Dispatched(field) == {n \in 1..Len(secs) : route[n] = field}
            reports == Ascending(Dispatched("report_sections"))
        IN  /\ Len(report.report_sections) = Len(reports)
            /\ \A k \in 1..Len(reports) :
                  report.report_sections[k] =
                      _parse_developer_report_section(secs[reports[k]].body)
            /\ \A field \in StructuredFields :
                  LET last == Dispatched(field)
                  IN  IF last # {}
                      THEN report[field] =
                              MarkdownParse(field, secs[SetMax(last)].body)
                      ELSE report[field] = JsonDerived(field)

\* two report sections of one document accumulate as two entries
C29_Witness ==
    /\ Returned /\ MdTruthy(ai_result.markdown)
    /\ Len(report.report_sections) = 2
    /\ report.report_sections[1] # report.report_sections[2]

\* a header naming two keywords is parsed for the earlier one alone
C29_WitnessTwoKeywords ==
    /\ Returned /\ MdTruthy(ai_result.markdown)
    /\ \E n \in 1..Len(ai_result.sections) :
          /\ FieldsNamedBy(ai_result.sections[n].header) = {"checklist", "severity_table"}
          /\ report.checklist = _parse_checklist_from_section(ai_result.sections[n].body)
          /\ report.checklist # <<>>
          /\ report.severity_table = JsonDerived("severity_table")

----------------------------------------------------------------------------
(* Further properties of the report store (checked under SpecStore)        *)

\* the last request was a PUT /v5/reports/{id} whose handler raised an
\* HTTPException of its own
UpdateRefused ==
    /\ response # NoResponse
    /\ response.op = "update"
    /\ "raised" \in DOMAIN response

\* C27 as claimed: a PUT /v5/reports/{id} that the handler refuses answers
\* with the status the handler raised, 404 for an id with no stored report
\* and 400 for an empty body or a body with no allowed field.
C27_AsClaimed ==
    UpdateRefused => response.status_code = response.raised

\* what the code does: every refusal of the handler is answered 500, and
\* the refused request leaves the store and the clock as they were
C27_RefusedAs500 ==
    [][(response'.op = "update" /\ "raised" \in DOMAIN response') =>
          /\ response'.status_code = 500
          /\ response'.raised \in {400, 404}
          /\ UNCHANGED <<reports_collection, utcnow, db_write>>]_vars

----------------------------------------------------------------------------
(* Properties of the LLM client (checked under SpecAi)                     *)

Analyzed == pc = "analyzed"

\* the request was made and its response carried a non-empty text
TextObtained ==
    /\ llm.client /\ ~llm.raises
    /\ llm.text.kind = "str" /\ llm.text.text # <<>>

\* C22: analyze_with_ai always returns a result; without a client, with a
\* failed request or with an empty response text the result is the mock
\* one (source "mock", the fixed mock Markdown, its sections, parsed_json
\* None), and source is "openai" only when a non-empty text was obtained.
C22_MockFallback ==
    Analyzed =>
        /\ ai_result.source \in {"mock", "openai"}
        /\ ~TextObtained =>
              /\ ai_result.source = "mock"
              /\ ai_result.markdown = StrArg(MOCK_MARKDOWN)
              /\ ai_result.sections = _extract_markdown_sections(StrArg(MOCK_MARKDOWN))
              /\ ai_result.sections # <<>>
              /\ ai_result.parsed_json = NoneArg
        /\ ai_result.source = "openai" => TextObtained

\* the client was there, the request went through, and the response text
\* was the empty string: the result is the mock one
C22_Witness ==
    /\ Analyzed
    /\ llm.client /\ ~llm.raises /\ llm.text = StrArg(<<>>)
    /\ ai_result.source = "mock"

\* C30: a result of analyze_with_ai carries one data source: non-empty
\* Markdown with parsed_json None, or a non-empty parsed_json with markdown
\* None and no sections; build_deep_report, which /v2/analyze hands the
\* result as it is, never gets both.
C30_OneSource ==
    Analyzed =>
        /\ \/ /\ MdTruthy(ai_result.markdown)
              /\ ai_result.parsed_json = NoneArg
           \/ /\ ai_result.parsed_json.kind = "json"
              /\ JsonTruthy(ai_result.parsed_json.text)
              /\ ai_result.markdown = NoneArg
              /\ ai_result.sections = <<>>
        /\ ~(MdTruthy(ai_result.markdown) /\ ai_result.parsed_json # NoneArg)

\* a response with prose around a JSON object: the object is the only
\* source of the result, the prose is dropped
C30_Witness ==
    /\ Analyzed
    /\ Contains(llm.text.text, "a")
    /\ ai_result.parsed_json = JsonValue(<<"{", "k", "1", "}">>)
    /\ ai_result.markdown = NoneArg

----------------------------------------------------------------------------
(* Properties of the JSON-only report path (checked under SpecV3Json)      *)

V3Answered == response # NoResponse /\ response.op = "v3json"

\* the LLM step gave the handler something: ai_result.parsed_json is truthy
V3UsableData == Truthy(ai_result.parsed_json)

\* the last document inserted is the raw structure of the last call
V3RawPersisted ==
    /\ collection.docs # <<>>
    /\ ~V3Valid(collection.docs[Len(collection.docs)])

\* C21 as claimed: /v3json/analyze answers with an error only when the LLM
\* step produced no usable data; a structure that does not fit the output
\* schema is answered with a response all the same.
C21_AsClaimed ==
    V3Answered /\ V3UsableData => response.status_code = 200

\* what the code does: an answer is a success exactly when the structure,
\* with the metadata defaults filled in, fits the schema; a structure that
\* does not fit is stored raw when the handler gets as far as the save, and
\* the caller gets 500 either from the handler or from the response model
C21_ErrorUnlessValid ==
    V3Answered =>
        /\ response.status_code \in {200, 500}
        /\ response.status_code = 200 =>
              /\ V3UsableData
              /\ response.validated
              /\ V3Valid(response.body)
        /\ ~V3UsableData =>
              response = V3Error("no parsed_json", "handler")


\* the handler itself raised on a structure that holds every list field of
\* the schema: its metadata is there and is no object
V3HandlerRefusedData ==
    /\ V3Answered /\ V3UsableData
    /\ response.status_code = 500 /\ response.stage = "handler"
    /\ ai_result.parsed_json.t = "dict"
    /\ \A k \in 1..Len(V3_FIELDS) : HasKey(ai_result.parsed_json, V3_FIELDS[k])
    /\ collection.docs = <<>>

----------------------------------------------------------------------------
(* Properties of concurrent saves (checked under SpecSave)                 *)

\* the calls that save the ticket id
CallsFor(id) == {c \in 1..MaxCalls : calls[c].ticket_id = id}

\* two or more calls save the id, all have returned, and each did its
\* find_one before any of them did its upsert: none found a document
RacedOn(id) ==
    /\ Cardinality(CallsFor(id)) >= 2
    /\ \A c \in CallsFor(id) : calls[c].at = "done" /\ calls[c].existing = NoDoc

\* C28 as claimed: after two or more save_report calls of one ticket id
\* that all looked the id up before any of them wrote, exactly one call
\* has returned created = true, the store holds one document of the id,
\* and the created_at every call returned is the created_at stored.
C28_AsClaimed ==
    \A id \in TicketIds :
        RacedOn(id) =>
            /\ Cardinality({c \in CallsFor(id) : calls[c].result.created}) = 1
            /\ Cardinality({d \in reports_collection : d["_id"] = id}) = 1
            /\ \A c \in CallsFor(id) :
                  TimeOf(calls[c].result.created_at)
                      = TimeOf(find_one(reports_collection, id).created_at)

\* what holds of such calls: one of them created the document, one
\* document is stored, and its created_at is the one the creating call
\* returned; a call that did not create returns the time of its own clock
\* reading, which is not the time stored
C28_OnlyCreatorAgrees ==
    \A id \in TicketIds :
        RacedOn(id) =>
            /\ Cardinality({c \in CallsFor(id) : calls[c].result.created}) = 1
            /\ Cardinality({d \in reports_collection : d["_id"] = id}) = 1
            /\ \A c \in CallsFor(id) :
                  /\ calls[c].result.created_at = isoformat(calls[c].now)
                  /\ calls[c].result.created <=>
                        TimeOf(calls[c].result.created_at)
                            = TimeOf(find_one(reports_collection, id).created_at)

====
